---- MODULE Spec2Model ----
(***************************************************************************)
(* Model of the Router of kalibr-sdk-ts (src/src/context.ts, class Router):*)
(* path selection, the in-request fallback loop, auto-evaluation and       *)
(* outcome reporting.  Every await of the source is a step boundary: an    *)
(* action runs the synchronous code from one await to the next.            *)
(*                                                                         *)
(* Environment: the decision service (decide / reportOutcome), the four    *)
(* provider SDKs and the caller.  Each call of decide() and reportOutcome()*)
(* is logged as one request and settles either way.                        *)
(***************************************************************************)
EXTENDS Integers, Sequences, FiniteSets, TLC

\* ------------------------------------------------------------------------
\* Bounds
\* ------------------------------------------------------------------------
MaxPaths == 2      \* longest path list given to the constructor
MaxCalls == 2      \* completion() invocations made on the Router
MaxReports == 2    \* manual report() invocations made after one completion()
MaxOverlap == 2    \* completion() invocations that can be in progress together
MaxAdds == 1       \* addPath() invocations made on the Router
MaxLifecycleCalls == 1   \* completion() invocations followed from construction on
MaxStarts == 2          \* start() calls on the SpanBuilder
MaxNesting == 1         \* withTraceId() / withSpanContext() calls nested
MaxClock == 2           \* the latest time Date.now() returns
MaxBatch == 2           \* most spans given to one sendSpans() call
MaxAppends == 7       \* appendHop() calls on one TraceCapsule

Calls == 1..MaxOverlap
Reports == 1..MaxReports

\* ------------------------------------------------------------------------
\* Values
\* ------------------------------------------------------------------------
\* Model identifiers are strings; they are kept as tuples of characters so
\* that toLowerCase / startsWith / includes are computed, not looked up.
NoModel == <<>>                                   \* null, undefined or ''
Gpt4o == <<"g", "p", "t", "-", "4", "o">>
Claude3 == <<"C", "l", "a", "u", "d", "e", "-", "3">>
Llama3 == <<"l", "l", "a", "m", "a", "-", "3">>
Models == {Gpt4o, Claude3, Llama3}

Undefined == "undefined"

\* Trace identifiers.
NoTraceId == [src |-> "none", n |-> 0]
AmbientTraceId == [src |-> "context", n |-> 0]
AmbientContexts == {NoTraceId, AmbientTraceId}    \* what getTraceId() sees

\* Errors a completion can hold or throw.  Each throw makes its own Error
\* object: k tells the errors of the candidates of one completion apart.
NoError == [type |-> "null", k |-> 0]
ProviderError(k) == [type |-> "provider_error", k |-> k]
CannotDetermineProvider(k) == [type |-> "cannot_determine_provider", k |-> k]
AllPathsFailed == [type |-> "all_paths_failed", k |-> 0]
PredicateError == [type |-> "success_when_threw", k |-> 0]

\* What a provider puts in choices[0].message.content.
RawContents == {"null", "yes"}

\* The successWhen callbacks the Router is configured with: none, one that
\* always returns a boolean, and one that throws on output it cannot parse.
Predicates == {Undefined, "isYes", "parseYes"}

NoDecision == [model_id |-> NoModel]
NoResponse == [model |-> NoModel, content |-> "none"]
NoReport == [success |-> FALSE, posted |-> 0]
NotSelected == [by |-> "none", model |-> NoModel]

\* ------------------------------------------------------------------------
\* Pure helpers
\* ------------------------------------------------------------------------
LowerCase ==
  "A" :> "a" @@ "B" :> "b" @@ "C" :> "c" @@ "D" :> "d" @@ "E" :> "e" @@ "F" :> "f" @@
  "G" :> "g" @@ "H" :> "h" @@ "I" :> "i" @@ "J" :> "j" @@ "K" :> "k" @@ "L" :> "l" @@
  "M" :> "m" @@ "N" :> "n" @@ "O" :> "o" @@ "P" :> "p" @@ "Q" :> "q" @@ "R" :> "r" @@
  "S" :> "s" @@ "T" :> "t" @@ "U" :> "u" @@ "V" :> "v" @@ "W" :> "w" @@ "X" :> "x" @@
  "Y" :> "y" @@ "Z" :> "z"

Lower(ch) == IF ch \in DOMAIN LowerCase THEN LowerCase[ch] ELSE ch

toLowerCase(s) == [k \in DOMAIN s |-> Lower(s[k])]

startsWith(s, p) == Len(s) >= Len(p) /\ SubSeq(s, 1, Len(p)) = p

includes(s, p) ==
  \E k \in 1..(Len(s) + 1) : k + Len(p) - 1 <= Len(s) /\ SubSeq(s, k, k + Len(p) - 1) = p

Throws == "throws"

detectProvider(model) ==
  LET modelLower == toLowerCase(model) IN
  IF \/ startsWith(modelLower, <<"g", "p", "t", "-">>)
     \/ startsWith(modelLower, <<"o", "1", "-">>)
     \/ startsWith(modelLower, <<"o", "3", "-">>)
  THEN "openai"
  ELSE IF startsWith(modelLower, <<"c", "l", "a", "u", "d", "e", "-">>)
  THEN "anthropic"
  ELSE IF \/ startsWith(modelLower, <<"g", "e", "m", "i", "n", "i", "-">>)
          \/ includes(modelLower, <<"m", "o", "d", "e", "l", "s", "/", "g", "e", "m", "i", "n", "i">>)
  THEN "google"
  ELSE IF startsWith(modelLower, <<"c", "o", "m", "m", "a", "n", "d">>)
  THEN "cohere"
  ELSE Throws

normalizePath(path) == [model |-> path, tools |-> Undefined]

\* content || '' of the provider converters.
NormalizeContent(raw) == IF raw = "null" THEN "" ELSE raw

\* The user's successWhen callback: "true", "false" or Throws.
successWhenResult(predicate, output) ==
  CASE predicate = "isYes" -> IF output = "yes" THEN "true" ELSE "false"
    [] predicate = "parseYes" ->
         IF output = "" THEN Throws ELSE IF output = "yes" THEN "true" ELSE "false"
    [] OTHER -> Undefined

RECURSIVE remainingPaths(_, _)
\* the paths whose model differs from selectedModel, in order
remainingPaths(s, selectedModel) ==
  IF s = <<>> THEN <<>>
  ELSE IF Head(s).model # selectedModel
       THEN <<Head(s)>> \o remainingPaths(Tail(s), selectedModel)
       ELSE remainingPaths(Tail(s), selectedModel)

RECURSIVE find(_, _)
\* Array.prototype.find on model equality: <<p>> for the first match, <<>> for none
find(s, selectedModel) ==
  IF s = <<>> THEN <<>>
  ELSE IF Head(s).model = selectedModel THEN <<Head(s)>>
       ELSE find(Tail(s), selectedModel)

\* (variant: the configured order is kept, the selected path is not moved)
candidatePathsOf_configuredOrder(ps, selectedModel) == ps

candidatePathsOf(ps, selectedModel) ==
  find(ps, selectedModel) \o remainingPaths(ps, selectedModel)

\* ------------------------------------------------------------------------
\* calculateCost (src/src/kalibr.ts).  Prices are kept in thousandths of a
\* dollar per million tokens and costs in millionths of a dollar, so that
\* the arithmetic is over integers.
\* ------------------------------------------------------------------------
Price(input, output) == [input |-> input, output |-> output]
DEFAULT_PRICING == Price(30000, 60000)

\* PRICING[provider][model], DEFAULT_PRICING for what the tables do not hold
PRICING(provider, model) ==
  CASE provider = "openai" /\ model = <<"g", "p", "t", "-", "4">> ->
         Price(30000, 60000)
    [] provider = "openai" /\ model = <<"g", "p", "t", "-", "4", "-", "t", "u", "r", "b", "o">> ->
         Price(10000, 30000)
    [] provider = "openai" /\ model = <<"g", "p", "t", "-", "4", "o">> ->
         Price(2500, 10000)
    [] provider = "openai" /\ model = <<"g", "p", "t", "-", "3", ".", "5", "-", "t", "u", "r", "b", "o">> ->
         Price(500, 1500)
    [] provider = "openai" /\ model = <<"g", "p", "t", "-", "4", "o", "-", "m", "i", "n", "i">> ->
         Price(150, 600)
    [] provider = "anthropic" /\ model = <<"c", "l", "a", "u", "d", "e", "-", "3", "-", "o", "p", "u", "s">> ->
         Price(15000, 75000)
    [] provider = "anthropic" /\ model = <<"c", "l", "a", "u", "d", "e", "-", "3", "-", "s", "o", "n", "n", "e", "t">> ->
         Price(3000, 15000)
    [] provider = "anthropic" /\ model = <<"c", "l", "a", "u", "d", "e", "-", "3", "-", "h", "a", "i", "k", "u">> ->
         Price(250, 1250)
    [] provider = "anthropic" /\ model = <<"c", "l", "a", "u", "d", "e", "-", "3", ".", "5", "-", "s", "o", "n", "n", "e", "t">> ->
         Price(3000, 15000)
    [] provider = "google" /\ model = <<"g", "e", "m", "i", "n", "i", "-", "p", "r", "o">> ->
         Price(1250, 5000)
    [] provider = "google" /\ model = <<"g", "e", "m", "i", "n", "i", "-", "1", ".", "5", "-", "p", "r", "o">> ->
         Price(1250, 5000)
    [] provider = "google" /\ model = <<"g", "e", "m", "i", "n", "i", "-", "1", ".", "5", "-", "f", "l", "a", "s", "h">> ->
         Price(75, 300)
    [] provider = "cohere" /\ model = <<"c", "o", "m", "m", "a", "n", "d">> ->
         Price(1000, 2000)
    [] provider = "cohere" /\ model = <<"c", "o", "m", "m", "a", "n", "d", "-", "r">> ->
         Price(500, 1500)
    [] provider = "cohere" /\ model = <<"c", "o", "m", "m", "a", "n", "d", "-", "r", "-", "p", "l", "u", "s">> ->
         Price(3000, 15000)
    [] OTHER -> DEFAULT_PRICING

normalizeModelName(provider, modelName) ==
  LET modelLower == toLowerCase(modelName) IN
  IF provider = "openai" /\ includes(modelLower, <<"g", "p", "t", "-", "4", "o", "-", "m", "i", "n", "i">>)
    THEN <<"g", "p", "t", "-", "4", "o", "-", "m", "i", "n", "i">>
  ELSE IF provider = "openai" /\ includes(modelLower, <<"g", "p", "t", "-", "4", "o">>)
    THEN <<"g", "p", "t", "-", "4", "o">>
  ELSE IF provider = "openai" /\ includes(modelLower, <<"g", "p", "t", "-", "4", "-", "t", "u", "r", "b", "o">>)
    THEN <<"g", "p", "t", "-", "4", "-", "t", "u", "r", "b", "o">>
  ELSE IF provider = "openai" /\ includes(modelLower, <<"g", "p", "t", "-", "4">>)
    THEN <<"g", "p", "t", "-", "4">>
  ELSE IF provider = "openai" /\ includes(modelLower, <<"g", "p", "t", "-", "3", ".", "5">>)
    THEN <<"g", "p", "t", "-", "3", ".", "5", "-", "t", "u", "r", "b", "o">>
  ELSE IF provider = "anthropic" /\ (includes(modelLower, <<"c", "l", "a", "u", "d", "e", "-", "3", ".", "5", "-", "s", "o", "n", "n", "e", "t">>) \/ includes(modelLower, <<"c", "l", "a", "u", "d", "e", "-", "3", "-", "5", "-", "s", "o", "n", "n", "e", "t">>))
    THEN <<"c", "l", "a", "u", "d", "e", "-", "3", ".", "5", "-", "s", "o", "n", "n", "e", "t">>
  ELSE IF provider = "anthropic" /\ includes(modelLower, <<"c", "l", "a", "u", "d", "e", "-", "3", "-", "o", "p", "u", "s">>)
    THEN <<"c", "l", "a", "u", "d", "e", "-", "3", "-", "o", "p", "u", "s">>
  ELSE IF provider = "anthropic" /\ includes(modelLower, <<"c", "l", "a", "u", "d", "e", "-", "3", "-", "s", "o", "n", "n", "e", "t">>)
    THEN <<"c", "l", "a", "u", "d", "e", "-", "3", "-", "s", "o", "n", "n", "e", "t">>
  ELSE IF provider = "anthropic" /\ includes(modelLower, <<"c", "l", "a", "u", "d", "e", "-", "3", "-", "h", "a", "i", "k", "u">>)
    THEN <<"c", "l", "a", "u", "d", "e", "-", "3", "-", "h", "a", "i", "k", "u">>
  ELSE IF provider = "google" /\ includes(modelLower, <<"g", "e", "m", "i", "n", "i", "-", "1", ".", "5", "-", "f", "l", "a", "s", "h">>)
    THEN <<"g", "e", "m", "i", "n", "i", "-", "1", ".", "5", "-", "f", "l", "a", "s", "h">>
  ELSE IF provider = "google" /\ includes(modelLower, <<"g", "e", "m", "i", "n", "i", "-", "1", ".", "5", "-", "p", "r", "o">>)
    THEN <<"g", "e", "m", "i", "n", "i", "-", "1", ".", "5", "-", "p", "r", "o">>
  ELSE IF provider = "google" /\ includes(modelLower, <<"g", "e", "m", "i", "n", "i", "-", "p", "r", "o">>)
    THEN <<"g", "e", "m", "i", "n", "i", "-", "p", "r", "o">>
  ELSE IF provider = "cohere" /\ includes(modelLower, <<"c", "o", "m", "m", "a", "n", "d", "-", "r", "-", "p", "l", "u", "s">>)
    THEN <<"c", "o", "m", "m", "a", "n", "d", "-", "r", "-", "p", "l", "u", "s">>
  ELSE IF provider = "cohere" /\ includes(modelLower, <<"c", "o", "m", "m", "a", "n", "d", "-", "r">>)
    THEN <<"c", "o", "m", "m", "a", "n", "d", "-", "r">>
  ELSE IF provider = "cohere" /\ includes(modelLower, <<"c", "o", "m", "m", "a", "n", "d">>)
    THEN <<"c", "o", "m", "m", "a", "n", "d">>
  ELSE modelLower

\* Math.round(x / 1000) for x >= 0
round1000(x) == (x + 500) \div 1000

\* NaN: no cost the function computes from numbers is negative
NaN == -1

\* Keys every object literal answers to without holding them: the
\* properties inherited from Object.prototype whose names are lower case.
\* What is found there is truthy and has no input and no output.
InheritedKeys == {<<"c", "o", "n", "s", "t", "r", "u", "c", "t", "o", "r">>,
                  <<"_", "_", "p", "r", "o", "t", "o", "_", "_">>}
NotAPrice == Price(NaN, NaN)

\* providerPricing[normalizedModel] || DEFAULT_PRICING
pricingOf(provider, modelId) ==
  LET normalizedModel == normalizeModelName(provider, modelId) IN
  IF normalizedModel \in InheritedKeys THEN NotAPrice
  ELSE PRICING(provider, normalizedModel)

calculateCost(provider, modelId, inputTokens, outputTokens) ==
  LET pricing == pricingOf(provider, modelId) IN
  IF pricing = NotAPrice THEN NaN
  ELSE round1000(inputTokens * pricing.input + outputTokens * pricing.output)

\* ------------------------------------------------------------------------
\* State
\* ------------------------------------------------------------------------
VARIABLES
  paths, successWhen,                       \* Router configuration
  lastTraceId, lastDecision, lastModel, outcomeReported,   \* Router state
  pc, ambient, selected, candidatePaths, i, lastError, response, thrown, posting,
                                            \* one completion() invocation each;
                                            \* selected[c] is selectedModel and
                                            \* the branch that assigned it;
                                            \* posting[c] is the reportOutcome()
                                            \* request call c is awaiting (0: none)
  rpc, rarg,                                \* one report() invocation each;
                                            \* rarg[r] is its argument and the
                                            \* reportOutcome() request it awaits,
                                            \* while it awaits one
  completions,                              \* completion() invocations so far
  decideRequests, providerCalls, outcomePosts,
      \* what the decision service and the providers saw since the latest
      \* completion() began on a Router with nothing in progress
  constructed,                              \* how `new Router(config)` ended
  autoRegister, initialized,                \* Router fields
  registrations,                            \* registerPath() requests made
  adds,                                     \* addPath() invocations
  instance,                                 \* Kalibr.instance (the singleton)
  span, builderClient,                      \* SpanBuilder fields; span is the
                                            \* PartialSpan it shares with the
                                            \* StartedSpan it returned
  started,                                  \* the latest StartedSpan
  fin,                                      \* the latest finish() call on it
  generated,                                \* generateId() calls so far
  starts,                                   \* one entry per start() call
  traceStorage, spanStorage,                \* the AsyncLocalStorage stores: the
                                            \* values of the run() calls the
                                            \* code is running inside
  completed,                                \* the span the latest finish() call
                                            \* on the latest StartedSpan built
  created,                                  \* the latest createSpan() call: its
                                            \* options and the span it returned
  now,                                      \* Date.now()
  send,                                     \* the latest sendSpan() / sendSpans()
                                            \* call and the fetch() calls it made
  wrap,                                     \* the latest call of a tracing wrapper
  capsule,                                  \* the TraceCapsule under observation
  minted,                                   \* newTraceId() calls so far
  built,                                    \* how the capsule was built
  appended,                                 \* the hops given to its appendHop()
  copy,                                     \* the latest round trip: the capsule
                                            \* serialized and the one read back
  priced                                    \* the latest calculateCost() call

routerVars == <<lastTraceId, lastDecision, lastModel, outcomeReported>>
configVars == <<paths, successWhen>>
callVars == <<pc, ambient, selected, candidatePaths, i, lastError, response, thrown,
              posting>>
reportVars == <<rpc, rarg>>
envVars == <<completions, decideRequests, providerCalls, outcomePosts>>
lifeVars == <<constructed, autoRegister, initialized, registrations, adds>>
spanVars == <<instance, span, builderClient, started, fin>>
idVars == <<generated, starts, traceStorage, spanStorage>>
apiVars == <<send, wrap>>
capsuleVars == <<capsule, minted, built, appended, copy>>
tracingVars == <<idVars, completed, created, now, apiVars, capsuleVars, priced>>
allRouterVars == <<configVars, routerVars, callVars, reportVars, envVars, lifeVars>>
vars == <<configVars, routerVars, callVars, reportVars, envVars, lifeVars, spanVars,
          tracingVars>>


\* Kalibr clients: what getTenantId() returns is all that matters of one.
NoClient == [name |-> "null", tenantId |-> ""]
Clients == {[name |-> "a", tenantId |-> "acme"], [name |-> "b", tenantId |-> ""]}

\* Values given to the SpanBuilder setters: strings, the empty one included.
FieldValues == {"", "acme"}
RequiredFields == <<"provider", "model_id", "operation", "tenant_id">>
IdFields == {"trace_id", "span_id", "parent_span_id"}
\* Metadata objects: given tells an object from undefined (null in a
\* finished span), map holds its keys and values.
Object(m) == [given |-> TRUE, map |-> m]
NoMetadata == [given |-> FALSE, map |-> [k \in {} |-> 0]]
Metadatas ==
  {NoMetadata, Object([k \in {} |-> 0]), Object([k \in {"a"} |-> 1]),
   Object([k \in {"b"} |-> 2]), Object([k \in {"a", "b"} |-> 2])}

NoSpan ==
  [f \in {RequiredFields[k] : k \in 1..4} \cup IdFields \cup {"vendor", "metadata"} |->
     IF f = "metadata" THEN NoMetadata ELSE Undefined]

NotStarted == [active |-> FALSE, client |-> NoClient, startTime |-> 0]

\* Identifiers the caller passes, the empty string included, and the ones
\* generateId() returns: the n-th call returns the n-th of them.
IdValues == {"", "id-1"}
GeneratedIds == <<"g1", "g2", "g3", "g4", "g5", "g6", "g7", "g8">>
generateId(n) == GeneratedIds[n]
\* The fields of a KalibrSpan the model follows; money is in millionths of
\* a dollar.  schema_version is '1.0' in every span that was built.
NoCompleted ==
  [schema_version |-> Undefined, trace_id |-> Undefined, span_id |-> Undefined,
   parent_span_id |-> Undefined, provider |-> Undefined, model_id |-> Undefined,
   duration_ms |-> 0, latency_ms |-> 0,
   input_tokens |-> 0, output_tokens |-> 0, total_tokens |-> 0,
   cost_usd |-> 0, total_cost_usd |-> 0,
   status |-> Undefined, error_type |-> Undefined, error_message |-> Undefined,
   stack_trace |-> Undefined, metadata |-> NoMetadata, vendor |-> Undefined]

\* The options of finish(), error(), timeout() and createSpan().
Statuses == {"success", "error", "timeout"}
NoCost == [given |-> FALSE, usd |-> 0]
CostOverrides == {NoCost, [given |-> TRUE, usd |-> 0], [given |-> TRUE, usd |-> 7]}
ErrorTexts == {Undefined, "boom"}
TokenCounts == {0, 1}
\* finish({inputTokens: 0, outputTokens: 0, autoSend})
tokensOnly(autoSend) ==
  [inputTokens |-> 0, outputTokens |-> 0, status |-> Undefined,
   errorType |-> Undefined, errorMessage |-> Undefined, stackTrace |-> Undefined,
   costUsd |-> NoCost, metadata |-> NoMetadata, autoSend |-> autoSend]

\* The options finish() is given: token counts with a cost override, a
\* status with error fields, or metadata.
FinishOptions ==
  {[tokensOnly(Undefined) EXCEPT !.inputTokens = in, !.outputTokens = out, !.costUsd = c] :
     in \in TokenCounts, out \in TokenCounts, c \in CostOverrides}
  \cup {[tokensOnly(Undefined) EXCEPT !.status = st, !.errorType = t, !.stackTrace = k] :
     st \in Statuses \cup {Undefined}, t \in ErrorTexts, k \in ErrorTexts}
  \cup {[tokensOnly(Undefined) EXCEPT !.metadata = m] : m \in Metadatas}

\* sendSpans() not called; no tracing wrapper called
NoSend == [pc |-> "idle", via |-> "none", spans |-> <<>>, requests |-> <<>>,
          error |-> "none"]
NoWrap == [pc |-> "idle", kind |-> "none", fn |-> "none", thrown |-> "none",
          finishes |-> <<>>]

NoCreated == [options |-> tokensOnly(Undefined), span |-> NoCompleted]

\* What error() is given: an Error, or an object with a message and
\* perhaps a type and a stack.
Errors ==
  {[isError |-> TRUE, name |-> "TypeError", type |-> Undefined, message |-> "boom",
    stack |-> "at f"],
   [isError |-> FALSE, name |-> Undefined, type |-> Undefined, message |-> "boom",
    stack |-> Undefined],
   [isError |-> FALSE, name |-> Undefined, type |-> "Custom", message |-> "boom",
    stack |-> Undefined]}
\* how the fetch() of sendSpans() can end: it rejects, or the response is
\* not ok
TransportFailures == {"network", "status"}
NoFinish == [pc |-> "idle", autoSend |-> Undefined, error |-> "none", sent |-> 0,
             via |-> "null", transport |-> "none", options |-> tokensOnly(Undefined)]

\* ------------------------------------------------------------------------
\* TraceCapsule values (src/src/capsule.ts).  Costs are in tenths of a
\* millionth of a dollar and latencies in thousandths of a millisecond, so
\* that the rounding of toJson() is visible.  Identifiers are trace ids:
\* NoTraceId is undefined, EmptyId the empty string.
\* ------------------------------------------------------------------------
MAX_HOPS == 5

EmptyId == [src |-> "empty", n |-> 0]
GivenId(k) == [src |-> "given", n |-> k]
\* !value for an identifier
falsy(id) == id = NoTraceId \/ id = EmptyId

\* an optional number: undefined, or a value
Absent == [given |-> FALSE, value |-> 0]
Num(v) == [given |-> TRUE, value |-> v]
\* x ?? 0.0
orZero(x) == IF x.given THEN x.value ELSE 0

\* an optional array of hops
NoHops == [given |-> FALSE, list |-> <<>>]
HopList(l) == [given |-> TRUE, list |-> l]
\* x ?? []
orEmpty(x) == IF x.given THEN x.list ELSE <<>>

\* The hops appendHop() is given: one with a cost only, one with a
\* duration only.
Hops ==
  {[cost_usd |-> Num(25), duration_ms |-> Absent, hop_index |-> Absent],
   [cost_usd |-> Absent, duration_ms |-> Num(3), hop_index |-> Absent]}
\* n hops as a capsule that appended them one by one holds them
Indexed(n) ==
  [k \in 1..n |-> [cost_usd |-> Num(25), duration_ms |-> Num(3), hop_index |-> Num(k - 1)]]

NoCapsule ==
  [traceId |-> NoTraceId, aggregateCostUsd |-> 0, aggregateLatencyMs |-> 0,
   lastNHops |-> <<>>, tenantId |-> Undefined, workflowId |-> Undefined,
   metadata |-> NoMetadata, contextToken |-> NoTraceId,
   parentContextToken |-> NoTraceId]

\* new TraceCapsule(): the options object with nothing set
NoOptions ==
  [traceId |-> NoTraceId, lastNHops |-> NoHops, aggregateCostUsd |-> Absent,
   aggregateLatencyMs |-> Absent, tenantId |-> Undefined, workflowId |-> Undefined,
   metadata |-> NoMetadata, contextToken |-> NoTraceId,
   parentContextToken |-> NoTraceId]

\* The options the constructor is given: identifiers, or tenant, workflow
\* and metadata, or a hop list with an aggregate.
CapsuleOptions ==
  {[NoOptions EXCEPT !.traceId = t, !.contextToken = c, !.parentContextToken = q] :
     t \in {NoTraceId, EmptyId, GivenId(1)}, c \in {NoTraceId, GivenId(2)},
     q \in {NoTraceId, EmptyId, GivenId(3)}}
  \cup {[NoOptions EXCEPT !.tenantId = t, !.workflowId = w, !.metadata = m] :
     t \in FieldValues \cup {Undefined}, w \in FieldValues \cup {Undefined},
     m \in {NoMetadata, Object([k \in {} |-> 0]), Object([k \in {"a"} |-> 1])}}
  \cup {[NoOptions EXCEPT !.lastNHops = h, !.aggregateCostUsd = a] :
     h \in {NoHops, HopList(<<>>), HopList(Indexed(1)), HopList(Indexed(MAX_HOPS + 1))},
     a \in {Absent, Num(25)}}

\* TraceCapsuleData with no key present
NoData ==
  [trace_id |-> NoTraceId, aggregate_cost_usd |-> Absent,
   aggregate_latency_ms |-> Absent, last_n_hops |-> NoHops, tenant_id |-> Undefined,
   workflow_id |-> Undefined, metadata |-> NoMetadata, context_token |-> NoTraceId,
   parent_context_token |-> NoTraceId]

\* The objects fromDict() is given and fromJson() finds in its text.
Datas ==
  {[NoData EXCEPT !.trace_id = t, !.last_n_hops = h, !.context_token = c] :
     t \in {NoTraceId, GivenId(1)}, h \in {NoHops, HopList(Indexed(MAX_HOPS + 1))},
     c \in {NoTraceId, GivenId(2)}}

\* calculateCost() not called
NotPriced ==
  [provider |-> "none", modelId |-> <<>>, inputTokens |-> 0, outputTokens |-> 0,
   normalized |-> <<>>, again |-> <<>>, pricing |-> DEFAULT_PRICING, cost |-> 0]

NotBuilt ==
  [by |-> "none", malformed |-> FALSE, threw |-> FALSE, mintedBefore |-> 0,
   capsule |-> NoCapsule]
NoCopy == [via |-> "none", of |-> NoCapsule, capsule |-> NoCapsule]

\* no TraceCapsule built
CapsuleInit ==
  /\ capsule = NoCapsule
  /\ minted = 0
  /\ built = NotBuilt
  /\ appended = <<>>
  /\ copy = NoCopy

\* no SpanBuilder started, Kalibr.init() not called
SpanInit ==
  /\ instance = NoClient
  /\ span = NoSpan
  /\ builderClient = NoClient
  /\ started = NotStarted
  /\ fin = NoFinish
  /\ generated = 0
  /\ starts = <<>>
  /\ traceStorage = <<>>
  /\ spanStorage = <<>>
  /\ completed = NoCompleted
  /\ created = NoCreated
  /\ send = NoSend
  /\ wrap = NoWrap
  /\ CapsuleInit
  /\ priced = NotPriced
  /\ now = 0

\* no completion(), report() or addPath() made, nothing requested yet
NothingCalled ==
  /\ lastTraceId = NoTraceId
  /\ lastDecision = NoDecision
  /\ lastModel = NoModel
  /\ outcomeReported = FALSE
  /\ pc = [c \in Calls |-> "idle"]
  /\ ambient = [c \in Calls |-> NoTraceId]
  /\ selected = [c \in Calls |-> NotSelected]
  /\ candidatePaths = [c \in Calls |-> <<>>]
  /\ i = [c \in Calls |-> 0]
  /\ lastError = [c \in Calls |-> NoError]
  /\ response = [c \in Calls |-> NoResponse]
  /\ thrown = [c \in Calls |-> NoError]
  /\ posting = [c \in Calls |-> 0]
  /\ rpc = [r \in Reports |-> "idle"]
  /\ rarg = [r \in Reports |-> NoReport]
  /\ completions = 0
  /\ decideRequests = <<>>
  /\ providerCalls = <<>>
  /\ outcomePosts = <<>>
  /\ initialized = FALSE
  /\ registrations = <<>>
  /\ adds = <<>>

\* ------------------------------------------------------------------------
\* Initial state: a Router just constructed with autoRegister: false (the
\* path list is non-empty, each spec normalized), no completion() or
\* report() made yet.
\* ------------------------------------------------------------------------
PathLists == UNION {[1..n -> {normalizePath(m) : m \in Models}] : n \in 1..MaxPaths}

Init ==
  /\ paths \in PathLists
  /\ successWhen \in Predicates
  /\ constructed = "ok"
  /\ autoRegister = FALSE
  /\ initialized = FALSE
  /\ registrations = <<>>
  /\ adds = <<>>
  /\ SpanInit
  /\ lastTraceId = NoTraceId
  /\ lastDecision = NoDecision
  /\ lastModel = NoModel
  /\ outcomeReported = FALSE
  /\ pc = [c \in Calls |-> "idle"]
  /\ ambient = [c \in Calls |-> NoTraceId]
  /\ selected = [c \in Calls |-> NotSelected]
  /\ candidatePaths = [c \in Calls |-> <<>>]
  /\ i = [c \in Calls |-> 0]
  /\ lastError = [c \in Calls |-> NoError]
  /\ response = [c \in Calls |-> NoResponse]
  /\ thrown = [c \in Calls |-> NoError]
  /\ posting = [c \in Calls |-> 0]
  /\ rpc = [r \in Reports |-> "idle"]
  /\ rarg = [r \in Reports |-> NoReport]
  /\ completions = 0
  /\ decideRequests = <<>>
  /\ providerCalls = <<>>
  /\ outcomePosts = <<>>

\* ------------------------------------------------------------------------
\* Helpers over the state
\* ------------------------------------------------------------------------
\* nothing of the Router is suspended at an await
Quiescent ==
  /\ \A c \in Calls : pc[c] \in {"idle", "resolved", "rejected"}
  /\ \A r \in Reports : rpc[r] \in {"idle", "done"}

\* the n-th identifier minted differs from the ones before it
newTraceId(n) == [src |-> "minted", n |-> n]

\* (variant: a new identifier is minted even inside an ambient trace)
establishTraceId_alwaysMinted(ctx, n) == newTraceId(n)

\* getTraceId() || newTraceId()
establishTraceId(ctx, n) == IF ctx # NoTraceId THEN ctx ELSE newTraceId(n)

\* the history kept when a completion() begins
Kept(log) == IF Quiescent THEN <<>> ELSE log

\* the slot a completion() beginning now runs in
FreeSlot(c) ==
  /\ pc[c] \in {"idle", "resolved", "rejected"}
  /\ \A d \in Calls : d < c => pc[d] \notin {"idle", "resolved", "rejected"}

\* reportOutcome(traceId, goal, success, ...) as the service sees it
\* by: the method that called it; id: its invocation; k: the candidate a
\* failure report is about (0 otherwise)
OutcomePost(traceId, success, by, id, k) ==
  [traceId |-> traceId, success |-> success, by |-> by, id |-> id, k |-> k,
   status |-> "pending"]

Settle(posts, n, ok) ==
  [posts EXCEPT ![n].status = IF ok THEN "accepted" ELSE "failed"]

\* (variant: the failure path does not look at the flag)
reportFailureReturnsEarly_noFlag(flag, tid) == tid = NoTraceId

\* if (this.outcomeReported || !this.lastTraceId) return;
reportFailureReturnsEarly(flag, tid) == flag \/ tid = NoTraceId

\* (variant: submits under the caller's ambient trace id)
reportTraceId_ambient(tid, ctx) == ctx

\* const traceId = this.lastTraceId || getTraceId()
reportTraceId(tid, ctx) == IF tid # NoTraceId THEN tid ELSE ctx

\* this.outcomeReported after reportOutcome() settled
flagAfterOutcome(flag, ok) == IF ok THEN TRUE ELSE flag

\* (variant: records the model that was selected, not the one that served)
servedModel_selected(candidate, selectedModel) == selectedModel

\* this.lastModel = candidate.model
servedModel(candidate, selectedModel) == candidate.model

\* (variant: throws a generic error instead of the last one)
errorToThrow_generic(err) == AllPathsFailed

\* throw lastError || new Error('All paths failed')
errorToThrow(err) == IF err = NoError THEN AllPathsFailed ELSE err

\* ------------------------------------------------------------------------
\* The fallback loop, from the top of iteration k to its next await.
\* flag, tid, posts and calls are the current values of outcomeReported,
\* lastTraceId, outcomePosts and providerCalls at this point of the step.
\* ------------------------------------------------------------------------
\* catch (err) { lastError = err; await this.reportFailure(...) }
Caught(c, k, err, flag, tid, posts) ==
  /\ lastError' = [lastError EXCEPT ![c] = err]
  /\ i' = [i EXCEPT ![c] = k]
  /\ pc' = [pc EXCEPT ![c] = "reportFailure"]
  /\ thrown' = [thrown EXCEPT ![c] = NoError]
  /\ IF reportFailureReturnsEarly(flag, tid)
     THEN /\ posting' = [posting EXCEPT ![c] = 0]
          /\ outcomePosts' = posts
     ELSE /\ posting' = [posting EXCEPT ![c] = Len(posts) + 1]
          /\ outcomePosts' = Append(posts, OutcomePost(tid, FALSE, "reportFailure", c, k))

TryCandidate(c, cands, k, err, flag, tid, posts, calls) ==
  IF k > Len(cands)
  THEN \* if (!response) throw lastError || new Error('All paths failed')
       /\ pc' = [pc EXCEPT ![c] = "rejected"]
       /\ thrown' = [thrown EXCEPT ![c] = errorToThrow(err)]
       /\ i' = [i EXCEPT ![c] = k - 1]
       /\ lastError' = [lastError EXCEPT ![c] = err]
       /\ posting' = [posting EXCEPT ![c] = 0]
       /\ outcomePosts' = posts
       /\ providerCalls' = calls
  ELSE IF detectProvider(cands[k].model) = Throws
  THEN /\ Caught(c, k, CannotDetermineProvider(k), flag, tid, posts)
       /\ providerCalls' = calls
  ELSE \* response = await this.dispatch(candidateProvider, candidate.model, ...)
       /\ pc' = [pc EXCEPT ![c] = "dispatch"]
       /\ i' = [i EXCEPT ![c] = k]
       /\ lastError' = [lastError EXCEPT ![c] = err]
       /\ thrown' = [thrown EXCEPT ![c] = NoError]
       /\ posting' = [posting EXCEPT ![c] = 0]
       /\ providerCalls' = Append(calls,
              [call |-> c, k |-> k, model |-> cands[k].model,
               provider |-> detectProvider(cands[k].model), status |-> "pending"])
       /\ outcomePosts' = posts

\* candidate list built, loop entered
EnterLoop(c, by, selectedModel, flag, tid, posts, calls) ==
  LET cands == candidatePathsOf(paths, selectedModel) IN
  /\ selected' = [selected EXCEPT ![c] = [by |-> by, model |-> selectedModel]]
  /\ candidatePaths' = [candidatePaths EXCEPT ![c] = cands]
  /\ TryCandidate(c, cands, 1, NoError, flag, tid, posts, calls)

\* ------------------------------------------------------------------------
\* completion(messages, options)
\* ------------------------------------------------------------------------
Completion(c, forceModel, ctx) ==
  /\ FreeSlot(c)
  /\ completions < MaxCalls
  /\ completions' = completions + 1
  /\ ambient' = [ambient EXCEPT ![c] = ctx]
  /\ response' = [response EXCEPT ![c] = NoResponse]
  /\ rpc' = [r \in Reports |-> IF Quiescent THEN "idle" ELSE rpc[r]]
  /\ rarg' = [r \in Reports |-> IF Quiescent THEN NoReport ELSE rarg[r]]
  /\ outcomeReported' = FALSE
  /\ lastTraceId' = establishTraceId(ctx, completions + 1)
  /\ IF forceModel # NoModel
     THEN /\ EnterLoop(c, "forceModel", forceModel, FALSE,
                       establishTraceId(ctx, completions + 1),
                       Kept(outcomePosts), Kept(providerCalls))
          /\ decideRequests' = Kept(decideRequests)
     ELSE /\ decideRequests' = Append(Kept(decideRequests), c)
          /\ pc' = [pc EXCEPT ![c] = "decide"]
          /\ selected' = [selected EXCEPT ![c] = NotSelected]
          /\ candidatePaths' = [candidatePaths EXCEPT ![c] = <<>>]
          /\ i' = [i EXCEPT ![c] = 0]
          /\ lastError' = [lastError EXCEPT ![c] = NoError]
          /\ thrown' = [thrown EXCEPT ![c] = NoError]
          /\ posting' = [posting EXCEPT ![c] = 0]
          /\ providerCalls' = Kept(providerCalls)
          /\ outcomePosts' = Kept(outcomePosts)
  /\ UNCHANGED <<configVars, lifeVars, spanVars, tracingVars, lastDecision, lastModel>>

\* decision = await decide(this.goal) resolved with model_id = m
DecideResolved(c, m) ==
  /\ pc[c] = "decide"
  /\ lastDecision' = [model_id |-> m]
  /\ EnterLoop(c, "decide", m, outcomeReported, lastTraceId, outcomePosts,
               providerCalls)
  /\ UNCHANGED <<configVars, lifeVars, spanVars, tracingVars, lastTraceId, lastModel, outcomeReported, ambient,
                 response, reportVars, completions, decideRequests>>

\* (variant: falls back to the last configured path)
fallbackModel_last(ps) == ps[Len(ps)].model

\* selectedModel = this.paths[0]!.model
fallbackModel(ps) == ps[1].model

\* (variant: a failed decide() clears the decision of an earlier completion)
DecideRejected_clearsDecision(c) ==
  /\ pc[c] = "decide"
  /\ lastDecision' = NoDecision
  /\ EnterLoop(c, "fallback", fallbackModel(paths), outcomeReported, lastTraceId,
               outcomePosts, providerCalls)
  /\ UNCHANGED <<configVars, lifeVars, spanVars, tracingVars, lastTraceId, lastModel,
                 outcomeReported, ambient, response, reportVars, completions,
                 decideRequests>>

\* decide() rejected: fall back to the first configured path
DecideRejected(c) ==
  /\ pc[c] = "decide"
  /\ EnterLoop(c, "fallback", fallbackModel(paths), outcomeReported, lastTraceId,
               outcomePosts, providerCalls)
  /\ UNCHANGED <<configVars, lifeVars, spanVars, tracingVars, routerVars, ambient, response, reportVars,
                 completions, decideRequests>>

SettleCall(calls, c, ok) ==
  [n \in DOMAIN calls |->
     IF calls[n].call = c /\ calls[n].status = "pending"
     THEN [calls[n] EXCEPT !.status = IF ok THEN "ok" ELSE "error"]
     ELSE calls[n]]

\* the provider call of candidate i resolved; raw is the content it carries
DispatchResolved(c, raw) ==
  /\ pc[c] = "dispatch"
  /\ LET candidate == candidatePaths[c][i[c]]
         resp == [model |-> candidate.model, content |-> NormalizeContent(raw)]
         output == resp.content
         verdict == successWhenResult(successWhen, output)
         tid == reportTraceId(lastTraceId, ambient[c])
     IN
     /\ response' = [response EXCEPT ![c] = resp]
     /\ lastModel' = servedModel(candidate, selected[c].model)
     /\ providerCalls' = SettleCall(providerCalls, c, TRUE)
     /\ IF successWhen # Undefined /\ ~outcomeReported
        THEN IF verdict = Throws
             THEN /\ pc' = [pc EXCEPT ![c] = "rejected"]
                  /\ thrown' = [thrown EXCEPT ![c] = PredicateError]
                  /\ UNCHANGED <<posting, outcomePosts>>
             ELSE \* await this.report(success, ...): the flag was tested just
                  \* above and lastTraceId is set since this call began, so
                  \* report() gets to its reportOutcome() request
                  /\ pc' = [pc EXCEPT ![c] = "autoReport"]
                  /\ posting' = [posting EXCEPT ![c] = Len(outcomePosts) + 1]
                  /\ outcomePosts' = Append(outcomePosts,
                         OutcomePost(tid, verdict = "true", "auto", c, 0))
                  /\ UNCHANGED thrown
        ELSE /\ pc' = [pc EXCEPT ![c] = "resolved"]
             /\ UNCHANGED <<thrown, posting, outcomePosts>>
  /\ UNCHANGED <<configVars, lifeVars, spanVars, tracingVars, lastTraceId, lastDecision, outcomeReported,
                 ambient, selected, candidatePaths, i, lastError, reportVars, completions,
                 decideRequests>>

\* the provider call of candidate i rejected
DispatchRejected(c) ==
  /\ pc[c] = "dispatch"
  /\ providerCalls' = SettleCall(providerCalls, c, FALSE)
  /\ Caught(c, i[c], ProviderError(i[c]), outcomeReported, lastTraceId, outcomePosts)
  /\ UNCHANGED <<configVars, lifeVars, spanVars, tracingVars, routerVars, ambient, selected, candidatePaths, response,
                 reportVars, completions, decideRequests>>

\* ------------------------------------------------------------------------
\* reportFailure(errorType, errorMessage), awaited inside the catch block
\* ------------------------------------------------------------------------
\* it had returned early: the loop continues with the next candidate
ReportFailureReturned(c) ==
  /\ pc[c] = "reportFailure"
  /\ posting[c] = 0
  /\ TryCandidate(c, candidatePaths[c], i[c] + 1, lastError[c],
                  outcomeReported, lastTraceId, outcomePosts, providerCalls)
  /\ UNCHANGED <<configVars, lifeVars, spanVars, tracingVars, routerVars, ambient, selected, candidatePaths, response,
                 reportVars, completions, decideRequests>>

\* (variant: the loop goes on without waiting for reportOutcome() to settle)
ReportFailureResolved_notAwaited(c) ==
  /\ pc[c] = "reportFailure"
  /\ posting[c] # 0
  /\ TryCandidate(c, candidatePaths[c], i[c] + 1, lastError[c],
                  outcomeReported, lastTraceId, outcomePosts, providerCalls)
  /\ UNCHANGED <<configVars, lifeVars, spanVars, tracingVars, routerVars, ambient, selected, candidatePaths, response,
                 reportVars, completions, decideRequests>>

\* its reportOutcome() resolved: the flag is set, then the loop continues
ReportFailureResolved(c) ==
  /\ pc[c] = "reportFailure"
  /\ posting[c] # 0
  /\ outcomeReported' = flagAfterOutcome(outcomeReported, TRUE)
  /\ TryCandidate(c, candidatePaths[c], i[c] + 1, lastError[c],
                  flagAfterOutcome(outcomeReported, TRUE), lastTraceId,
                  Settle(outcomePosts, posting[c], TRUE), providerCalls)
  /\ UNCHANGED <<configVars, lifeVars, spanVars, tracingVars, lastTraceId, lastDecision, lastModel, ambient,
                 selected, candidatePaths, response, reportVars, completions, decideRequests>>

\* its reportOutcome() rejected: the error is swallowed, the loop continues
ReportFailureRejected(c) ==
  /\ pc[c] = "reportFailure"
  /\ posting[c] # 0
  /\ TryCandidate(c, candidatePaths[c], i[c] + 1, lastError[c],
                  flagAfterOutcome(outcomeReported, FALSE), lastTraceId,
                  Settle(outcomePosts, posting[c], FALSE), providerCalls)
  /\ UNCHANGED <<configVars, lifeVars, spanVars, tracingVars, routerVars, ambient, selected, candidatePaths, response,
                 reportVars, completions, decideRequests>>

\* ------------------------------------------------------------------------
\* await this.report(success, ...) of the auto-evaluation, then return response
\* ------------------------------------------------------------------------
AutoReportResolved(c) ==
  /\ pc[c] = "autoReport"
  /\ posting[c] # 0
  /\ outcomeReported' = flagAfterOutcome(outcomeReported, TRUE)
  /\ outcomePosts' = Settle(outcomePosts, posting[c], TRUE)
  /\ pc' = [pc EXCEPT ![c] = "resolved"]
  /\ UNCHANGED <<configVars, lifeVars, spanVars, tracingVars, lastTraceId, lastDecision, lastModel, ambient,
                 selected, candidatePaths, i, lastError, response, thrown, posting,
                 reportVars, completions, decideRequests, providerCalls>>

AutoReportRejected(c) ==
  /\ pc[c] = "autoReport"
  /\ posting[c] # 0
  /\ outcomeReported' = flagAfterOutcome(outcomeReported, FALSE)
  /\ outcomePosts' = Settle(outcomePosts, posting[c], FALSE)
  /\ pc' = [pc EXCEPT ![c] = "resolved"]
  /\ UNCHANGED <<configVars, lifeVars, spanVars, tracingVars, lastTraceId, lastDecision, lastModel, ambient,
                 selected, candidatePaths, i, lastError, response, thrown, posting,
                 reportVars, completions, decideRequests, providerCalls>>

\* ------------------------------------------------------------------------
\* report(success, reason?, score?) called by the user
\* ------------------------------------------------------------------------
ReportsMade == Cardinality({r \in Reports : rpc[r] # "idle"})

\* (variant: report() does not look at the flag)
reportReturnsEarly_never(flag) == FALSE

\* (variant: report() also returns while an outcome is being submitted)
reportReturnsEarly_whileInFlight(flag) ==
  flag \/ \E n \in DOMAIN outcomePosts : outcomePosts[n].status = "pending"

\* if (this.outcomeReported) return;
reportReturnsEarly(flag) == flag

Report(r, success, ctx) ==
  /\ rpc[r] = "idle"
  /\ r = ReportsMade + 1
  /\ IF reportReturnsEarly(outcomeReported) \/ reportTraceId(lastTraceId, ctx) = NoTraceId
     THEN /\ rpc' = [rpc EXCEPT ![r] = "done"]
          /\ UNCHANGED rarg
          /\ UNCHANGED outcomePosts
     ELSE /\ rpc' = [rpc EXCEPT ![r] = "posting"]
          /\ rarg' = [rarg EXCEPT ![r] = [success |-> success,
                                          posted |-> Len(outcomePosts) + 1]]
          /\ outcomePosts' = Append(outcomePosts,
                 OutcomePost(reportTraceId(lastTraceId, ctx), success, "report", r, 0))
  /\ UNCHANGED <<configVars, lifeVars, spanVars, tracingVars, routerVars, callVars, completions, decideRequests,
                 providerCalls>>

ReportResolved(r) ==
  /\ rpc[r] = "posting"
  /\ outcomeReported' = flagAfterOutcome(outcomeReported, TRUE)
  /\ outcomePosts' = Settle(outcomePosts, rarg[r].posted, TRUE)
  /\ rpc' = [rpc EXCEPT ![r] = "done"]
  /\ rarg' = [rarg EXCEPT ![r] = NoReport]
  /\ UNCHANGED <<configVars, lifeVars, spanVars, tracingVars, lastTraceId, lastDecision, lastModel, callVars,
                 completions, decideRequests, providerCalls>>

ReportRejected(r) ==
  /\ rpc[r] = "posting"
  /\ outcomeReported' = flagAfterOutcome(outcomeReported, FALSE)
  /\ outcomePosts' = Settle(outcomePosts, rarg[r].posted, FALSE)
  /\ rpc' = [rpc EXCEPT ![r] = "done"]
  /\ rarg' = [rarg EXCEPT ![r] = NoReport]
  /\ UNCHANGED <<configVars, lifeVars, spanVars, tracingVars, lastTraceId, lastDecision, lastModel, callVars,
                 completions, decideRequests, providerCalls>>

\* ------------------------------------------------------------------------
\* Specification: the Router is used by one caller that awaits every
\* completion() and report() before making the next call.
\* ------------------------------------------------------------------------
Next ==
  \/ \E c \in Calls, forceModel \in Models \cup {NoModel}, ctx \in AmbientContexts :
       Quiescent /\ Completion(c, forceModel, ctx)
  \/ \E c \in Calls, m \in Models : DecideResolved(c, m)
  \/ \E c \in Calls : DecideRejected(c)
  \/ \E c \in Calls, raw \in RawContents : DispatchResolved(c, raw)
  \/ \E c \in Calls : DispatchRejected(c)
  \/ \E c \in Calls : ReportFailureReturned(c)
  \/ \E c \in Calls : ReportFailureResolved(c)
  \/ \E c \in Calls : ReportFailureRejected(c)
  \/ \E c \in Calls : AutoReportResolved(c)
  \/ \E c \in Calls : AutoReportRejected(c)
  \/ \E r \in Reports, success \in BOOLEAN, ctx \in AmbientContexts :
       Quiescent /\ Report(r, success, ctx)
  \/ \E r \in Reports : ReportResolved(r)
  \/ \E r \in Reports : ReportRejected(r)

Spec == Init /\ [][Next]_vars

\* ------------------------------------------------------------------------
\* Observations used by the properties
\* ------------------------------------------------------------------------
\* positions in providerCalls of the provider calls of completion c
CallsOf(c) == {n \in DOMAIN providerCalls : providerCalls[n].call = c}

\* positions in outcomePosts of the outcomes completion c submitted itself
PostsOf(c) ==
  {n \in DOMAIN outcomePosts :
     outcomePosts[n].by \in {"reportFailure", "auto"} /\ outcomePosts[n].id = c}

\* positions in outcomePosts of the outcomes submitted by report()
ReportPosts == {n \in DOMAIN outcomePosts : outcomePosts[n].by = "report"}

Accepted == {n \in DOMAIN outcomePosts : outcomePosts[n].status = "accepted"}

Active(c) == pc[c] # "idle"

\* ------------------------------------------------------------------------
\* C1: in every completion() the provider calls follow the candidate list
\* in order, nothing is called after a call that succeeded, and when
\* completion() has returned a response getLastModel() is the model of the
\* candidate whose call succeeded.
\* ------------------------------------------------------------------------
C1_FallbackOrder ==
  \A c \in Calls : Active(c) =>
    /\ \A n \in CallsOf(c) :
         /\ providerCalls[n].k \in 1..i[c]
         /\ providerCalls[n].model = candidatePaths[c][providerCalls[n].k].model
    /\ \A n, m \in CallsOf(c) : n < m =>
         /\ providerCalls[n].k < providerCalls[m].k
         /\ providerCalls[n].status = "error"
    /\ \A k \in 1..i[c] :
         detectProvider(candidatePaths[c][k].model) # Throws =>
           \E n \in CallsOf(c) : providerCalls[n].k = k
    /\ pc[c] = "resolved" =>
         /\ \E n \in CallsOf(c) :
              /\ providerCalls[n].status = "ok"
              /\ providerCalls[n].k = i[c]
              /\ lastModel = providerCalls[n].model
         /\ response[c].model = lastModel

\* a fallback candidate served the request and getLastModel() names it
C1_Witness ==
  \E c \in Calls :
    /\ pc[c] = "resolved"
    /\ i[c] = 2
    /\ selected[c].model = candidatePaths[c][1].model
    /\ lastModel = candidatePaths[c][2].model
    /\ lastModel # selected[c].model

\* ------------------------------------------------------------------------
\* C2: a completion() that rejects without any candidate having succeeded
\* has tried every candidate and throws the error of the last one; a
\* completion() that resolves holds the response of a successful call.
\* ------------------------------------------------------------------------
C2_LastErrorThrown ==
  \A c \in Calls :
    /\ (pc[c] = "rejected" /\ response[c] = NoResponse) =>
         /\ i[c] = Len(candidatePaths[c])
         /\ thrown[c].k = Len(candidatePaths[c])
         /\ thrown[c].type \in {"provider_error", "cannot_determine_provider"}
         /\ \A n \in CallsOf(c) : providerCalls[n].status = "error"
    /\ pc[c] = "resolved" =>
         /\ response[c] # NoResponse
         /\ \E n \in CallsOf(c) : providerCalls[n].status = "ok"

\* both candidates failed and the second one's error was thrown
C2_Witness ==
  \E c \in Calls :
    /\ pc[c] = "rejected"
    /\ response[c] = NoResponse
    /\ Len(candidatePaths[c]) = 2
    /\ thrown[c] = ProviderError(2)
    /\ Cardinality(CallsOf(c)) = 2

\* ------------------------------------------------------------------------
\* C3: once a candidate's provider call has succeeded, completion() does
\* not reject, whatever auto-evaluation and outcome reporting do.
\* ------------------------------------------------------------------------
C3_ResolvesAfterSuccess ==
  \A c \in Calls : response[c] # NoResponse => pc[c] # "rejected"

\* ------------------------------------------------------------------------
\* C4: every failed provider call of a completion() has its own failure
\* outcome submitted (success = false), the second and later ones included.
\* ------------------------------------------------------------------------
C4_EveryFailureReported ==
  \A c \in Calls : \A n \in CallsOf(c) :
    providerCalls[n].status = "error" =>
      \E q \in PostsOf(c) :
        /\ outcomePosts[q].by = "reportFailure"
        /\ outcomePosts[q].k = providerCalls[n].k
        /\ outcomePosts[q].success = FALSE

\* ------------------------------------------------------------------------
\* C5: a completion() that returned a response on a Router with
\* successWhen has submitted exactly one outcome, and its success flag is
\* successWhen(content of the first choice).
\* ------------------------------------------------------------------------
C5_OneAutoOutcome ==
  \A c \in Calls : (pc[c] = "resolved" /\ successWhen # Undefined) =>
    /\ Cardinality(PostsOf(c)) = 1
    /\ \A q \in PostsOf(c) :
         outcomePosts[q].success =
           (successWhenResult(successWhen, response[c].content) = "true")

\* ------------------------------------------------------------------------
\* C6 (as stated): two report() calls made for one completion make exactly
\* one outcome submission between them, made by the first call.
\* ------------------------------------------------------------------------
TwoReportsDone ==
  /\ completions >= 1
  /\ \A c \in Calls : pc[c] \in {"idle", "resolved", "rejected"}
  /\ \A r \in Reports : rpc[r] = IF r <= 2 THEN "done" ELSE "idle"

ReportPostsOf(r) == {n \in ReportPosts : outcomePosts[n].id = r}

C6_TwoReportsOneSubmission ==
  TwoReportsDone =>
    /\ Cardinality(ReportPosts) = 1
    /\ ReportPostsOf(2) = {}

\* an outcome of the completion itself (failure report or auto-evaluation)
\* was accepted
ReportedByCompletion ==
  \E n \in Accepted : outcomePosts[n].by \in {"reportFailure", "auto"}

\* C6 (amended): of two report() calls made in sequence for one completion,
\* neither submits when an outcome of that completion was already accepted;
\* otherwise the first call submits one outcome, and the second call
\* submits nothing if that submission was accepted and submits again if it
\* failed.
C6_SecondReportNoOpAfterAccepted ==
  TwoReportsDone =>
    /\ ReportedByCompletion => ReportPosts = {}
    /\ ~ReportedByCompletion =>
         /\ Cardinality(ReportPostsOf(1)) = 1
         /\ \A n \in ReportPostsOf(1) :
              /\ outcomePosts[n].status = "accepted" => ReportPostsOf(2) = {}
              /\ outcomePosts[n].status = "failed" =>
                   Cardinality(ReportPostsOf(2)) = 1

\* the first report() was accepted and the second one submitted nothing
C6_Witness ==
  /\ TwoReportsDone
  /\ ~ReportedByCompletion
  /\ Cardinality(ReportPosts) = 1
  /\ \A n \in ReportPosts : outcomePosts[n].status = "accepted"

C8_FirstReportSubmits ==
  \A c \in Calls :
    (successWhen = Undefined /\ pc[c] = "resolved" /\ rpc[1] # "idle") =>
      /\ Cardinality(ReportPostsOf(1)) = 1
      /\ \A n \in ReportPostsOf(1) :
           /\ outcomePosts[n].traceId = lastTraceId
           /\ rpc[1] = "posting" => outcomePosts[n].success = rarg[1].success

\* ------------------------------------------------------------------------
\* C36: a candidate whose model no prefix rule matches gets no provider
\* call; a failure outcome is submitted for it and the next candidate is
\* tried; when it is the last candidate, completion() rejects with the
\* cannot-determine-provider error.
\* ------------------------------------------------------------------------
Unrecognized(c) ==
  {k \in 1..i[c] : detectProvider(candidatePaths[c][k].model) = Throws}

NoCallNextTried(c, k) ==
  /\ \A n \in CallsOf(c) : providerCalls[n].k # k
  /\ (k < Len(candidatePaths[c]) /\ pc[c] \in {"resolved", "rejected"}) => i[c] > k
  /\ (k = Len(candidatePaths[c]) /\ pc[c] = "rejected") =>
       thrown[c] = CannotDetermineProvider(k)

FailureReported(c, k) ==
  \E q \in PostsOf(c) :
    /\ outcomePosts[q].by = "reportFailure"
    /\ outcomePosts[q].k = k
    /\ outcomePosts[q].success = FALSE

C36_UnknownProviderIsFailure ==
  \A c \in Calls : Active(c) =>
    \A k \in Unrecognized(c) : NoCallNextTried(c, k) /\ FailureReported(c, k)

\* ------------------------------------------------------------------------
\* C38: when a completion() begins, outcomeReported and lastTraceId are
\* reset and lastModel and lastDecision are kept; lastModel is written
\* only when a provider call succeeds and lastDecision only when decide()
\* resolves.  So after a completion() whose candidates all failed, or that
\* was forced or fell back, the getters return what an earlier
\* completion() left.
\* ------------------------------------------------------------------------
C38_OnlyFlagAndTraceIdReset ==
  [][/\ completions' = completions + 1 =>
          /\ outcomeReported' = FALSE
          /\ lastTraceId' # NoTraceId
          /\ lastModel' = lastModel
          /\ lastDecision' = lastDecision
     /\ lastModel' # lastModel =>
          \E c \in Calls :
            /\ pc[c] = "dispatch"
            /\ response'[c] # NoResponse
            /\ lastModel' = response'[c].model
     /\ lastDecision' # lastDecision =>
          \E c \in Calls : pc[c] = "decide" /\ selected'[c].by = "decide"]_vars

\* the second completion() was forced and all its candidates failed:
\* getLastModel() and getLastDecision() still answer with the first one's
C38_Witness ==
  /\ completions = 2
  /\ pc[1] = "rejected"
  /\ response[1] = NoResponse
  /\ selected[1].by = "forceModel"
  /\ lastModel # NoModel
  /\ lastDecision # NoDecision

\* ------------------------------------------------------------------------
\* C9: completion() with options.forceModel = m makes no decide() request
\* and its first provider call is for model m.
\* ------------------------------------------------------------------------
C9_ForcedModelDispatchedFirst ==
  \A c \in Calls : selected[c].by = "forceModel" =>
    /\ \A n \in DOMAIN decideRequests : decideRequests[n] # c
    /\ \A n \in CallsOf(c) :
         (\A m \in CallsOf(c) : n <= m) =>
           providerCalls[n].model = selected[c].model

\* ------------------------------------------------------------------------
\* C10 (as stated): when decide() fails the candidate list is the first
\* configured path followed by the remaining configured paths in order.
\* ------------------------------------------------------------------------
C10_FallbackKeepsAllPaths ==
  \A c \in Calls : selected[c].by = "fallback" =>
    candidatePaths[c] = <<paths[1]>> \o Tail(paths)

OtherThanFirst(p) == p.model # paths[1].model

\* C10 (amended): when decide() fails, completion() goes on with the first
\* configured path as first candidate, followed by the remaining
\* configured paths whose model differs from the first path's model, in
\* configured order.
C10_FallbackToFirstPath ==
  \A c \in Calls : selected[c].by = "fallback" =>
    /\ pc[c] # "decide"
    /\ selected[c].model = paths[1].model
    /\ candidatePaths[c] = <<paths[1]>> \o SelectSeq(Tail(paths), OtherThanFirst)
    /\ \A n \in CallsOf(c) :
         providerCalls[n].model = candidatePaths[c][providerCalls[n].k].model

\* decide() failed; the first path was tried, then the second one served
C10_Witness ==
  \E c \in Calls :
    /\ selected[c].by = "fallback"
    /\ pc[c] = "resolved"
    /\ i[c] = 2
    /\ candidatePaths[c] = paths
    /\ Cardinality(CallsOf(c)) = 2

\* ------------------------------------------------------------------------
\* C11 (as stated): the candidate list holds every configured path exactly
\* once.
\* ------------------------------------------------------------------------
Count(s, p) == Cardinality({n \in DOMAIN s : s[n] = p})

C11_EveryPathExactlyOnce ==
  \A c \in Calls : selected[c].by # "none" =>
    /\ Len(candidatePaths[c]) = Len(paths)
    /\ \A n \in DOMAIN paths :
         Count(candidatePaths[c], paths[n]) = Count(paths, paths[n])

\* positions of the configured paths with model m / with another model
PathsWith(m) == {n \in DOMAIN paths : paths[n].model = m}
PathsWithout(m) == {n \in DOMAIN paths : paths[n].model # m}

\* C11 (amended): the candidate list is the first configured path whose
\* model is the decided/forced model (when one matches), followed by the
\* configured paths with any other model, each once and in configured
\* order; further paths with the selected model are left out.
C11_CandidateList ==
  \A c \in Calls : selected[c].by # "none" =>
    LET m == selected[c].model
        cands == candidatePaths[c]
        lead == IF PathsWith(m) = {} THEN 0 ELSE 1
    IN
    /\ Len(cands) = lead + Cardinality(PathsWithout(m))
    /\ lead = 1 =>
         \E n \in PathsWith(m) :
           /\ \A q \in PathsWith(m) : n <= q
           /\ cands[1] = paths[n]
    /\ \A n \in PathsWithout(m) :
         cands[lead + Cardinality({q \in PathsWithout(m) : q <= n})] = paths[n]

\* the decided model is the second configured path: it leads the list and
\* the first configured path follows it
C11_Witness ==
  \E c \in Calls :
    /\ selected[c].by = "decide"
    /\ Len(paths) = 2
    /\ paths[1].model # paths[2].model
    /\ selected[c].model = paths[2].model
    /\ candidatePaths[c] = <<paths[2], paths[1]>>

\* ------------------------------------------------------------------------
\* C13: within one completion() at most one provider call is in flight;
\* while the call of candidate k is in flight every earlier call of that
\* completion has failed and no failure report of it is still pending.
\* ------------------------------------------------------------------------
InFlight(c) == {n \in CallsOf(c) : providerCalls[n].status = "pending"}

C13_OneCallInFlight ==
  \A c \in Calls :
    /\ Cardinality(InFlight(c)) <= 1
    /\ \A n \in InFlight(c) :
         /\ pc[c] = "dispatch"
         /\ providerCalls[n].k = i[c]
         /\ \A m \in CallsOf(c) \ {n} :
              /\ providerCalls[m].status = "error"
              /\ providerCalls[m].k < providerCalls[n].k
         /\ \A q \in PostsOf(c) : outcomePosts[q].status # "pending"

\* the second candidate's call is in flight after the first one failed
\* and its failure report was answered
C13_Witness ==
  \E c \in Calls :
    /\ \E n \in InFlight(c) : providerCalls[n].k = 2
    /\ \E m \in CallsOf(c) : providerCalls[m].k = 1 /\ providerCalls[m].status = "error"
    /\ \E q \in PostsOf(c) : outcomePosts[q].k = 1 /\ outcomePosts[q].status = "failed"

\* ------------------------------------------------------------------------
\* C17: with non-overlapping calls, the trace id a completion() establishes
\* (the ambient one when there is one, else a newly minted one) is what
\* getLastTraceId() returns, and every outcome submitted for that
\* completion (failure reports, auto-evaluation, manual report()) carries
\* it.
\* ------------------------------------------------------------------------
C17_OneTraceId ==
  completions >= 1 =>
    /\ lastTraceId # NoTraceId
    /\ \A c \in Calls : Active(c) =>
         lastTraceId = IF ambient[c] # NoTraceId THEN ambient[c]
                       ELSE newTraceId(completions)
    /\ \A n \in DOMAIN outcomePosts : outcomePosts[n].traceId = lastTraceId

\* inside an ambient trace: a failure report and a later report() both
\* carried the ambient trace id
C17_Witness ==
  /\ completions = 2
  /\ lastTraceId = AmbientTraceId
  /\ \E n \in DOMAIN outcomePosts : outcomePosts[n].by = "reportFailure"
  /\ \E n \in ReportPosts : outcomePosts[n].traceId = AmbientTraceId

\* ------------------------------------------------------------------------
\* new Router(config), registerPaths() and addPath(model, tools, params)
\* ------------------------------------------------------------------------
\* config.paths, absent or a list of model names (the empty list included)
LifecycleModels == {Gpt4o, Claude3}
PathSpecLists == UNION {[1..n -> LifecycleModels] : n \in 0..MaxPaths}

\* config.autoRegister
AutoRegisterOptions == {Undefined, "true", "false"}

\* the tools argument of addPath()
Tools == {Undefined, "search"}

\* config.paths || []
pathsOrEmpty(given, specs) == IF given THEN specs ELSE <<>>

\* config.autoRegister ?? true
autoRegisterOf(opt) == IF opt = Undefined THEN TRUE ELSE opt = "true"

\* getToolId(config): undefined when config.tools is not set
getToolId(config) == IF config.tools = Undefined THEN Undefined ELSE config.tools

\* registerPath(goal, model, {toolId, params}) as the service sees it
\* by: the method that called it; id: the path's position (constructor) or
\* the addPath() invocation
Registration(by, id, path) ==
  [by |-> by, id |-> id, model |-> path.model, toolId |-> getToolId(path),
   status |-> "pending"]

\* registerPaths(): one request per path, all issued before the first await
registerPathsRequests(ps) == [k \in DOMAIN ps |-> Registration("constructor", k, ps[k])]

\* (variant: the path list is not validated)
constructorThrows_never(ps) == FALSE

\* if (this.paths.length === 0) throw new Error('Router requires at least one path')
constructorThrows(ps) == Len(ps) = 0

Construct(given, specs, predicate, opt) ==
  /\ constructed = "no"
  /\ LET given_paths == pathsOrEmpty(given, specs)
         ps == [k \in DOMAIN given_paths |-> normalizePath(given_paths[k])]
     IN
     /\ paths' = ps
     /\ successWhen' = predicate
     /\ autoRegister' = autoRegisterOf(opt)
     /\ IF constructorThrows(ps)
        THEN /\ constructed' = "threw"
             /\ UNCHANGED registrations
        ELSE /\ constructed' = "ok"
             /\ registrations' = IF autoRegisterOf(opt) THEN registerPathsRequests(ps)
                                 ELSE registrations
  /\ UNCHANGED <<routerVars, callVars, reportVars, envVars, initialized, adds, spanVars, tracingVars>>

\* the registrations registerPaths() is waiting for
ConstructorRegistrations(regs) == {n \in DOMAIN regs : regs[n].by = "constructor"}

SettleRegistration(regs, n, ok) ==
  [regs EXCEPT ![n].status = IF ok THEN "ok" ELSE "failed"]

\* await Promise.all(registrations); this.initialized = true
initializedAfter(regs) ==
  \A n \in ConstructorRegistrations(regs) : regs[n].status # "pending"

\* one registerPath() of registerPaths() resolved
ConstructorRegistrationResolved(n) ==
  /\ n \in ConstructorRegistrations(registrations)
  /\ registrations[n].status = "pending"
  /\ registrations' = SettleRegistration(registrations, n, TRUE)
  /\ initialized' = initializedAfter(SettleRegistration(registrations, n, TRUE))
  /\ UNCHANGED <<configVars, routerVars, callVars, reportVars, envVars, constructed,
                 autoRegister, adds, spanVars, tracingVars>>

\* (variant: the registration error reaches the Router)
ConstructorRegistrationRejected_propagates(n) ==
  /\ n \in ConstructorRegistrations(registrations)
  /\ registrations[n].status = "pending"
  /\ registrations' = SettleRegistration(registrations, n, FALSE)
  /\ initialized' = initialized
  /\ constructed' = "threw"
  /\ UNCHANGED <<configVars, routerVars, callVars, reportVars, envVars,
                 autoRegister, adds, spanVars, tracingVars>>

\* one registerPath() of registerPaths() rejected: catch (err) {}
ConstructorRegistrationRejected(n) ==
  /\ n \in ConstructorRegistrations(registrations)
  /\ registrations[n].status = "pending"
  /\ registrations' = SettleRegistration(registrations, n, FALSE)
  /\ initialized' = initializedAfter(SettleRegistration(registrations, n, FALSE))
  /\ UNCHANGED <<configVars, routerVars, callVars, reportVars, envVars, constructed,
                 autoRegister, adds, spanVars, tracingVars>>

AddPath(model, tools) ==
  /\ constructed = "ok"
  /\ Len(adds) < MaxAdds
  /\ LET path == [model |-> model, tools |-> tools] IN
     /\ paths' = Append(paths, path)
     /\ IF autoRegister
        THEN /\ registrations' =
                  Append(registrations, Registration("addPath", Len(adds) + 1, path))
             /\ adds' = Append(adds, [path |-> path, pc |-> "registering",
                                      posted |-> Len(registrations) + 1])
        ELSE /\ UNCHANGED registrations
             /\ adds' = Append(adds, [path |-> path, pc |-> "resolved", posted |-> 0])
  /\ UNCHANGED <<successWhen, routerVars, callVars, reportVars, envVars, constructed,
                 autoRegister, initialized, spanVars, tracingVars>>

\* (variant: the registration error is rethrown)
addPathAfterRegistration_rethrows(ok) == IF ok THEN "resolved" ELSE "rejected"

\* try { await registerPath(...) } catch (err) { console.warn(...) }
addPathAfterRegistration(ok) == "resolved"

AddPathResolved(a) ==
  /\ a \in DOMAIN adds
  /\ adds[a].pc = "registering"
  /\ registrations' = SettleRegistration(registrations, adds[a].posted, TRUE)
  /\ adds' = [adds EXCEPT ![a].pc = addPathAfterRegistration(TRUE)]
  /\ UNCHANGED <<configVars, routerVars, callVars, reportVars, envVars, constructed,
                 autoRegister, initialized, spanVars, tracingVars>>

\* (variant: a path whose registration failed is taken out of the list)
AddPathRejected_removesPath(a) ==
  /\ a \in DOMAIN adds
  /\ adds[a].pc = "registering"
  /\ registrations' = SettleRegistration(registrations, adds[a].posted, FALSE)
  /\ adds' = [adds EXCEPT ![a].pc = addPathAfterRegistration(FALSE)]
  /\ paths' = SubSeq(paths, 1, Len(paths) - 1)
  /\ UNCHANGED <<successWhen, routerVars, callVars, reportVars, envVars, constructed,
                 autoRegister, initialized, spanVars, tracingVars>>

AddPathRejected(a) ==
  /\ a \in DOMAIN adds
  /\ adds[a].pc = "registering"
  /\ registrations' = SettleRegistration(registrations, adds[a].posted, FALSE)
  /\ adds' = [adds EXCEPT ![a].pc = addPathAfterRegistration(FALSE)]
  /\ UNCHANGED <<configVars, routerVars, callVars, reportVars, envVars, constructed,
                 autoRegister, initialized, spanVars, tracingVars>>

\* ------------------------------------------------------------------------
\* Specification: a Router from its construction on.  One caller awaits
\* each completion() and report(); registration requests settle at any
\* time and addPath() is called at any time.
\* ------------------------------------------------------------------------
InitLifecycle ==
  /\ constructed = "no"
  /\ paths = <<>>
  /\ successWhen = Undefined
  /\ autoRegister = FALSE
  /\ NothingCalled
  /\ SpanInit

LifecycleNext ==
  \/ \E given \in BOOLEAN, specs \in PathSpecLists, predicate \in {Undefined, "isYes"},
        opt \in AutoRegisterOptions :
       (given \/ specs = <<>>) /\ Construct(given, specs, predicate, opt)
  \/ \E n \in 1..(MaxPaths + MaxAdds) : ConstructorRegistrationResolved(n)
  \/ \E n \in 1..(MaxPaths + MaxAdds) : ConstructorRegistrationRejected(n)
  \/ \E model \in LifecycleModels, tools \in Tools : AddPath(model, tools)
  \/ \E a \in 1..MaxAdds : AddPathResolved(a)
  \/ \E a \in 1..MaxAdds : AddPathRejected(a)
  \/ \E c \in Calls, forceModel \in LifecycleModels \cup {NoModel} :
       /\ constructed = "ok"
       /\ Quiescent
       /\ completions < MaxLifecycleCalls
       /\ Completion(c, forceModel, NoTraceId)
  \/ \E c \in Calls, m \in LifecycleModels : DecideResolved(c, m)
  \/ \E c \in Calls : DecideRejected(c)
  \/ \E c \in Calls : DispatchResolved(c, "yes")
  \/ \E c \in Calls : DispatchRejected(c)
  \/ \E c \in Calls : ReportFailureReturned(c)
  \/ \E c \in Calls : ReportFailureResolved(c)
  \/ \E c \in Calls : ReportFailureRejected(c)
  \/ \E c \in Calls : AutoReportResolved(c)
  \/ \E c \in Calls : AutoReportRejected(c)
  \/ \E r \in Reports : constructed = "ok" /\ Quiescent /\ Report(r, TRUE, NoTraceId)
  \/ \E r \in Reports : ReportResolved(r)
  \/ \E r \in Reports : ReportRejected(r)

SpecLifecycle == InitLifecycle /\ [][LifecycleNext]_vars

\* ------------------------------------------------------------------------
\* Specification: completion() calls made on one Router without awaiting
\* the previous one (up to MaxOverlap in progress together).
\* ------------------------------------------------------------------------
OverlapNext ==
  \/ \E c \in Calls, forceModel \in Models \cup {NoModel}, ctx \in AmbientContexts :
       Completion(c, forceModel, ctx)
  \/ \E c \in Calls, m \in Models : DecideResolved(c, m)
  \/ \E c \in Calls : DecideRejected(c)
  \/ \E c \in Calls, raw \in RawContents : DispatchResolved(c, raw)
  \/ \E c \in Calls : DispatchRejected(c)
  \/ \E c \in Calls : ReportFailureReturned(c)
  \/ \E c \in Calls : ReportFailureResolved(c)
  \/ \E c \in Calls : ReportFailureRejected(c)
  \/ \E c \in Calls : AutoReportResolved(c)
  \/ \E c \in Calls : AutoReportRejected(c)

\* Routers with two paths, the second one with or without a known provider
OverlapPathLists ==
  {<<normalizePath(Gpt4o), normalizePath(m)>> : m \in {Claude3, Llama3}}

InitOverlap ==
  /\ Init
  /\ paths \in OverlapPathLists
  /\ successWhen \in {Undefined, "isYes"}

SpecOverlap == InitOverlap /\ [][OverlapNext]_vars

\* ------------------------------------------------------------------------
\* Specification: one completion(), with report() calls that the caller
\* does not await: a report() can begin while the completion or an
\* earlier report() is waiting for its outcome request.
\* ------------------------------------------------------------------------
UnawaitedNext ==
  \/ \E c \in Calls, forceModel \in Models \cup {NoModel}, ctx \in AmbientContexts :
       completions = 0 /\ Quiescent /\ Completion(c, forceModel, ctx)
  \/ \E c \in Calls, m \in Models : DecideResolved(c, m)
  \/ \E c \in Calls : DecideRejected(c)
  \/ \E c \in Calls, raw \in RawContents : DispatchResolved(c, raw)
  \/ \E c \in Calls : DispatchRejected(c)
  \/ \E c \in Calls : ReportFailureReturned(c)
  \/ \E c \in Calls : ReportFailureResolved(c)
  \/ \E c \in Calls : ReportFailureRejected(c)
  \/ \E c \in Calls : AutoReportResolved(c)
  \/ \E c \in Calls : AutoReportRejected(c)
  \/ \E r \in Reports, success \in BOOLEAN, ctx \in AmbientContexts :
       Report(r, success, ctx)
  \/ \E r \in Reports : ReportResolved(r)
  \/ \E r \in Reports : ReportRejected(r)

SpecUnawaited == InitOverlap /\ [][UnawaitedNext]_vars

\* positions of the outcomes submitted in this step
Submitted ==
  {n \in DOMAIN outcomePosts' :
     /\ outcomePosts'[n].status = "pending"
     /\ n \in DOMAIN outcomePosts => outcomePosts[n] # outcomePosts'[n]}

\* ------------------------------------------------------------------------
\* C37: outcomeReported is set only in the step in which an outcome
\* request resolves; so a report() that begins while an outcome of the
\* same completion is still being submitted, none having been accepted,
\* submits an outcome too, under the same trace id: two submissions for
\* one completion.  (Before the first completion() there is no completion
\* to report for.)
\* ------------------------------------------------------------------------
Pending == {n \in DOMAIN outcomePosts : outcomePosts[n].status = "pending"}

ReportBegins(r) == rpc[r] = "idle" /\ rpc'[r] # "idle"

C37_UnawaitedReportSubmitsAgain ==
  [][/\ (~outcomeReported /\ outcomeReported') =>
          \E n \in Pending : outcomePosts'[n].status = "accepted"
     /\ \A r \in Reports :
          (ReportBegins(r) /\ completions > 0 /\ Pending # {} /\ Accepted = {}) =>
            /\ rpc'[r] = "posting"
            /\ Submitted = {Len(outcomePosts) + 1}
            /\ \A n \in Pending :
                 outcomePosts'[n].traceId = outcomePosts'[Len(outcomePosts) + 1].traceId]_vars

\* two report() calls of one completion are waiting for their outcome
\* requests at the same time
C37_Witness ==
  /\ rpc[1] = "posting"
  /\ rpc[2] = "posting"
  /\ Cardinality(ReportPosts) = 2
  /\ \E c \in Calls : pc[c] = "resolved"

\* ------------------------------------------------------------------------
\* C12: with overlapping completion() calls the Router keeps one
\* lastTraceId and one outcomeReported for all of them: lastTraceId is
\* written only when a completion() begins, every outcome is submitted
\* under the lastTraceId current at that moment (the latest call's, also
\* for an outcome of an earlier call), and while the flag is set by an
\* accepted outcome of any call no call submits an outcome.
\* ------------------------------------------------------------------------
C12_SharedBookkeeping ==
  [][/\ lastTraceId' # lastTraceId => completions' = completions + 1
     /\ \A n \in Submitted : outcomePosts'[n].traceId = lastTraceId'
     /\ (Submitted # {} /\ completions' = completions) => ~outcomeReported
     /\ (outcomeReported /\ completions' = completions) => outcomeReported']_vars

\* two calls overlap: the failure report of the earlier call went out under
\* the later call's trace id, was accepted, and the later call's failed
\* candidate was then not reported
C12_Witness ==
  /\ completions = 2
  /\ pc[2] # "idle"
  /\ lastTraceId = newTraceId(2)
  /\ \E q \in PostsOf(1) :
       /\ outcomePosts[q].traceId = newTraceId(2)
       /\ outcomePosts[q].status = "accepted"
  /\ \E n \in CallsOf(2) : providerCalls[n].status = "error"
  /\ PostsOf(2) = {}
  /\ pc[2] = "resolved"

\* ------------------------------------------------------------------------
\* Kalibr.init, SpanBuilder and StartedSpan (src/src/kalibr.ts)
\* ------------------------------------------------------------------------
\* the autoSend option of finish()
AutoSendOptions == {Undefined, "true", "false"}

\* !value for a string field that may be unset
missing(value) == value = Undefined \/ value = ""

\* Kalibr.init(config)
KalibrInit(client) ==
  /\ instance' = client
  /\ UNCHANGED <<allRouterVars, tracingVars, span, builderClient, started, fin>>

\* useClient(client)
UseClient(client) ==
  /\ builderClient' = client
  /\ UNCHANGED <<allRouterVars, tracingVars, instance, span, started, fin>>

SetProvider(provider) ==
  /\ span' = [span EXCEPT !.provider = provider, !.vendor = provider]
  /\ UNCHANGED <<allRouterVars, tracingVars, instance, builderClient, started, fin>>

SetModel(modelId) ==
  /\ span' = [span EXCEPT !.model_id = modelId]
  /\ UNCHANGED <<allRouterVars, tracingVars, instance, builderClient, started, fin>>

SetOperation(operation) ==
  /\ span' = [span EXCEPT !.operation = operation]
  /\ UNCHANGED <<allRouterVars, tracingVars, instance, builderClient, started, fin>>

SetTenantId(tenantId) ==
  /\ span' = [span EXCEPT !.tenant_id = tenantId]
  /\ UNCHANGED <<allRouterVars, tracingVars, instance, builderClient, started, fin>>

SetMetadata(metadata) ==
  /\ span' = [span EXCEPT !.metadata = metadata]
  /\ UNCHANGED <<allRouterVars, tracingVars, instance, builderClient, started, fin>>

\* the clock moves on
Tick ==
  /\ now < MaxClock
  /\ now' = now + 1
  /\ UNCHANGED <<allRouterVars, priced, capsuleVars, apiVars, spanVars, idVars, completed, created>>

SetTraceId(traceId) ==
  /\ span' = [span EXCEPT !.trace_id = traceId]
  /\ UNCHANGED <<allRouterVars, tracingVars, instance, builderClient, started, fin>>

SetSpanId(spanId) ==
  /\ span' = [span EXCEPT !.span_id = spanId]
  /\ UNCHANGED <<allRouterVars, tracingVars, instance, builderClient, started, fin>>

SetParentSpanId(parentSpanId) ==
  /\ span' = [span EXCEPT !.parent_span_id = parentSpanId]
  /\ UNCHANGED <<allRouterVars, tracingVars, instance, builderClient, started, fin>>

\* storage.getStore(): the value of the innermost run()
getStore(storage) == IF storage = <<>> THEN Undefined ELSE storage[Len(storage)]

\* withTraceId(traceId, fn): fn begins inside traceStorage.run(traceId, fn)
WithTraceId(traceId) ==
  /\ Len(traceStorage) < MaxNesting
  /\ traceStorage' = Append(traceStorage, traceId)
  /\ UNCHANGED <<allRouterVars, priced, capsuleVars, apiVars, spanVars, generated, starts, spanStorage, completed, created, now>>

\* the fn of the innermost withTraceId() is over
WithTraceIdReturned ==
  /\ traceStorage # <<>>
  /\ traceStorage' = SubSeq(traceStorage, 1, Len(traceStorage) - 1)
  /\ UNCHANGED <<allRouterVars, priced, capsuleVars, apiVars, spanVars, generated, starts, spanStorage, completed, created, now>>

\* withSpanContext(spanId, fn): fn begins inside spanStorage.run(spanId, fn)
WithSpanContext(spanId) ==
  /\ Len(spanStorage) < MaxNesting
  /\ spanStorage' = Append(spanStorage, spanId)
  /\ UNCHANGED <<allRouterVars, priced, capsuleVars, apiVars, spanVars, generated, starts, traceStorage, completed, created, now>>

WithSpanContextReturned ==
  /\ spanStorage # <<>>
  /\ spanStorage' = SubSeq(spanStorage, 1, Len(spanStorage) - 1)
  /\ UNCHANGED <<allRouterVars, priced, capsuleVars, apiVars, spanVars, generated, starts, traceStorage, completed, created, now>>

\* this.client || (Kalibr.isInitialized() ? Kalibr.getInstance() : null)
resolveClient(own, singleton) == IF own # NoClient THEN own ELSE singleton

\* start(): the ids that are not set are generated, the client is resolved
\* and the tenant id defaults to the client's; the StartedSpan keeps the
\* builder's span object.  An entry of starts holds the ids of the
\* builder's span before the call, the two stores, and the ids right after
\* the call (what getTraceId() and getSpanId() of the StartedSpan return).
ids(sp) == [f \in IdFields |-> sp[f]]

\* the span start() leaves behind when n ids were generated before, and
\* the number of ids generated after it
startOf(sp, client, n) ==
  LET newTrace == missing(sp.trace_id)
      traceCalls == IF newTrace THEN n + 1 ELSE n
      newSpan == missing(sp.span_id)
  IN
  [span |-> [sp EXCEPT
               !.trace_id = IF newTrace THEN generateId(n + 1) ELSE @,
               !.span_id = IF newSpan THEN generateId(traceCalls + 1) ELSE @,
               !.tenant_id = IF client # NoClient /\ missing(@)
                             THEN client.tenantId ELSE @],
   generated |-> IF newSpan THEN traceCalls + 1 ELSE traceCalls]

\* start() on a builder whose span is sp and whose client is own
StartBuilder(sp, own) ==
  LET client == resolveClient(own, instance)
      after == startOf(sp, client, generated)
  IN
  /\ Len(starts) < MaxStarts
  /\ started' = [active |-> TRUE, client |-> client, startTime |-> now]
  /\ generated' = after.generated
  /\ span' = after.span
  /\ starts' = Append(starts, [before |-> ids(sp),
                               traceStorage |-> getStore(traceStorage),
                               spanStorage |-> getStore(spanStorage),
                               after |-> ids(after.span)])
  /\ fin' = NoFinish
  /\ completed' = NoCompleted

Start ==
  /\ fin.pc # "sending"
  /\ StartBuilder(span, builderClient)
  /\ UNCHANGED <<allRouterVars, priced, capsuleVars, apiVars, instance, builderClient, traceStorage, spanStorage,
                 created, now>>

\* (variant: the fields are checked in the reverse order)
firstMissing_reversed(sp) ==
  IF missing(sp.tenant_id) THEN "tenant_id"
  ELSE IF missing(sp.operation) THEN "operation"
  ELSE IF missing(sp.model_id) THEN "model_id"
  ELSE IF missing(sp.provider) THEN "provider"
  ELSE "none"

\* the validation of finish(): the field its error names, "none" if it passes
firstMissing(sp) ==
  IF missing(sp.provider) THEN "provider"
  ELSE IF missing(sp.model_id) THEN "model_id"
  ELSE IF missing(sp.operation) THEN "operation"
  ELSE IF missing(sp.tenant_id) THEN "tenant_id"
  ELSE "none"

\* (variant: the option is not looked at)
shouldSend_ignoresOption(autoSend, client) == client # NoClient

\* options.autoSend !== false && this.client
shouldSend(autoSend, client) == autoSend # "false" /\ client # NoClient

\* x ?? null
orNull(x) == IF x = Undefined THEN "null" ELSE x

\* The characters of the model ids the SpanBuilder is given.
chars(modelId) ==
  CASE modelId = "gpt-4o" -> Gpt4o
    [] modelId = "Claude-3" -> Claude3
    [] modelId = "acme" -> <<"a", "c", "m", "e">>
    [] OTHER -> <<>>

\* options.costUsd ?? calculateCost(...)
(* variant: options.costUsd || calculateCost(...) *)
costOf_zeroIgnored(override, provider, modelId, inputTokens, outputTokens) ==
  IF override.given /\ override.usd # 0 THEN override.usd
  ELSE calculateCost(provider, chars(modelId), inputTokens, outputTokens)

costOf(override, provider, modelId, inputTokens, outputTokens) ==
  IF override.given THEN override.usd
  ELSE calculateCost(provider, chars(modelId), inputTokens, outputTokens)

\* { ...a, ...b }
(* variant: { ...b, ...a } *)
spread_firstWins(a, b) ==
  [k \in DOMAIN a \cup DOMAIN b |-> IF k \in DOMAIN a THEN a[k] ELSE b[k]]

spread(a, b) ==
  [k \in DOMAIN a \cup DOMAIN b |-> IF k \in DOMAIN b THEN b[k] ELSE a[k]]

\* this.span.metadata || options.metadata ? {...} : undefined
mergeMetadata(own, given) ==
  IF own.given \/ given.given THEN Object(spread(own.map, given.map)) ELSE NoMetadata

\* the KalibrSpan finish() builds
completeSpan(sp, options, durationMs) ==
  LET costUsd == costOf(options.costUsd, sp.provider, sp.model_id,
                        options.inputTokens, options.outputTokens)
  IN
  [schema_version |-> "1.0",
   trace_id |-> sp.trace_id,
   span_id |-> sp.span_id,
   parent_span_id |-> orNull(sp.parent_span_id),
   provider |-> sp.provider,
   model_id |-> sp.model_id,
   duration_ms |-> durationMs,
   latency_ms |-> durationMs,
   input_tokens |-> options.inputTokens,
   output_tokens |-> options.outputTokens,
   total_tokens |-> options.inputTokens + options.outputTokens,
   cost_usd |-> costUsd,
   total_cost_usd |-> costUsd,
   status |-> IF options.status = Undefined THEN "success" ELSE options.status,
   error_type |-> orNull(options.errorType),
   error_message |-> orNull(options.errorMessage),
   stack_trace |-> orNull(options.stackTrace),
   metadata |-> mergeMetadata(sp.metadata, options.metadata),
   vendor |-> IF sp.vendor = Undefined THEN sp.provider ELSE sp.vendor]

\* finish(options), up to its await of sendSpan(), when this.client is
\* client; via is the client whose sendSpan() is called
FinishThrough(options, client) ==
  /\ LET sending == shouldSend(options.autoSend, client)
         outcome == [pc |-> "resolved", autoSend |-> options.autoSend, error |-> "none",
                     sent |-> 0, via |-> "null", transport |-> "none",
                     options |-> options]
     IN
     fin' = IF firstMissing(span) # "none"
            THEN [outcome EXCEPT !.pc = "rejected", !.error = firstMissing(span)]
            ELSE IF sending
            THEN [outcome EXCEPT !.pc = "sending", !.sent = 1, !.via = client.name,
                                 !.transport = "pending"]
            ELSE outcome
  /\ completed' = IF firstMissing(span) # "none" THEN NoCompleted
                  ELSE completeSpan(span, options, now - started.startTime)

\* (variant: finish() looks the singleton up again)
FinishStarted_singleton(options) == FinishThrough(options, instance)

\* this.client is the client start() handed to the StartedSpan
FinishStarted(options) == FinishThrough(options, started.client)

Finish(options) ==
  /\ started.active
  /\ fin.pc # "sending"
  /\ FinishStarted(options)
  /\ UNCHANGED <<allRouterVars, priced, capsuleVars, apiVars, idVars, created, now, instance, span, builderClient, started>>

\* the options error(error, options) passes to finish()
errorOptions(error, options) ==
  [options EXCEPT
     !.status = "error",
     !.errorType = IF error.isError THEN error.name
                   ELSE IF error.type = Undefined THEN "Error" ELSE error.type,
     !.errorMessage = error.message,
     !.stackTrace = error.stack]

\* error(error, options)
Error(error, options) == Finish(errorOptions(error, options))

\* timeout(options)
Timeout(options) == Finish([options EXCEPT !.status = "timeout"])

\* the KalibrSpan createSpan(options) returns, without its ids and timestamps
createSpan(provider, modelId, durationMs, options) ==
  LET costUsd == costOf(options.costUsd, provider, modelId,
                        options.inputTokens, options.outputTokens)
  IN
  [schema_version |-> "1.0",
   provider |-> provider,
   model_id |-> modelId,
   duration_ms |-> durationMs,
   latency_ms |-> durationMs,
   input_tokens |-> options.inputTokens,
   output_tokens |-> options.outputTokens,
   total_tokens |-> options.inputTokens + options.outputTokens,
   cost_usd |-> costUsd,
   total_cost_usd |-> costUsd,
   status |-> IF options.status = Undefined THEN "success" ELSE options.status,
   error_type |-> orNull(options.errorType),
   error_message |-> orNull(options.errorMessage),
   stack_trace |-> orNull(options.stackTrace),
   metadata |-> options.metadata,
   vendor |-> provider]

CreateSpan(provider, modelId, durationMs, options) ==
  /\ created' = [options |-> options,
                 span |-> createSpan(provider, modelId, durationMs, options)]
  /\ UNCHANGED <<allRouterVars, priced, capsuleVars, apiVars, spanVars, idVars, completed, now>>

\* sendSpan() resolved: finish() returns the span
SendResolved ==
  /\ fin.pc = "sending"
  /\ fin' = [fin EXCEPT !.pc = "resolved", !.transport = "ok"]
  /\ UNCHANGED <<allRouterVars, tracingVars, instance, span, builderClient, started>>

\* (variant: finish() catches the error of sendSpan() and returns the span)
SendRejected_swallowed ==
  /\ fin.pc = "sending"
  /\ \E cause \in TransportFailures :
       fin' = [fin EXCEPT !.pc = "resolved", !.transport = cause]
  /\ UNCHANGED <<allRouterVars, tracingVars, instance, span, builderClient, started>>

\* sendSpan() rejected (network error or response not ok): finish() rejects
SendRejected ==
  /\ fin.pc = "sending"
  /\ \E cause \in TransportFailures :
       fin' = [fin EXCEPT !.pc = "rejected", !.error = "transport",
                          !.transport = cause]
  /\ UNCHANGED <<allRouterVars, tracingVars, instance, span, builderClient, started>>

\* ------------------------------------------------------------------------
\* Kalibr.sendSpan / Kalibr.sendSpans (src/src/kalibr.ts).  A request body
\* is a sequence of pieces: the JSON text of a span, or a newline.
\* ------------------------------------------------------------------------
SentSpans == {"s1", "s2"}
Batches == UNION {[1..n -> SentSpans] : n \in 0..MaxBatch}

stringify(sp) == [piece |-> "json", of |-> sp]
Newline == [piece |-> "newline", of |-> ""]

\* parts.join(sep)
RECURSIVE join(_, _)
join(parts, sep) ==
  IF Len(parts) = 0 THEN <<>>
  ELSE IF Len(parts) = 1 THEN <<parts[1]>>
  ELSE <<parts[1], sep>> \o join(Tail(parts), sep)

\* spans.map((span) => JSON.stringify(span)).join('\n') + '\n'
ndjson(spans) ==
  join([k \in DOMAIN spans |-> stringify(spans[k])], Newline) \o <<Newline>>

\* client.sendSpans(spans), up to its await of fetch()
sendSpansCall(via, spans) ==
  IF Len(spans) = 0
  THEN [pc |-> "resolved", via |-> via, spans |-> spans, requests |-> <<>>,
        error |-> "none"]
  ELSE [pc |-> "fetching", via |-> via, spans |-> spans,
        requests |-> <<[method |-> "POST", body |-> ndjson(spans)]>>,
        error |-> "none"]

Settled(call) == call.pc \in {"idle", "resolved", "rejected"}

SendSpans(spans) ==
  /\ Settled(send)
  /\ send' = sendSpansCall("sendSpans", spans)
  /\ UNCHANGED <<allRouterVars, priced, capsuleVars, spanVars, idVars, completed, created, now, wrap>>

\* client.sendSpan(span): sendSpans([span])
SendSpan(sp) ==
  /\ Settled(send)
  /\ send' = sendSpansCall("sendSpan", <<sp>>)
  /\ UNCHANGED <<allRouterVars, priced, capsuleVars, spanVars, idVars, completed, created, now, wrap>>

\* Kalibr.sendSpans(spans): getInstance() throws before Kalibr.init()
StaticSendSpans(spans) ==
  /\ Settled(send)
  /\ send' = IF instance = NoClient
             THEN [pc |-> "rejected", via |-> "static", spans |-> spans,
                   requests |-> <<>>, error |-> "not initialized"]
             ELSE sendSpansCall("static", spans)
  /\ UNCHANGED <<allRouterVars, priced, capsuleVars, spanVars, idVars, completed, created, now, wrap>>

\* fetch() resolved with a response; one that is not ok is read first
FetchResolved(ok) ==
  /\ send.pc = "fetching"
  /\ send' = [send EXCEPT !.pc = IF ok THEN "resolved" ELSE "reading"]
  /\ UNCHANGED <<allRouterVars, priced, capsuleVars, spanVars, idVars, completed, created, now, wrap>>

\* response.text() of a response that is not ok settled: the call throws
ResponseTextSettled ==
  /\ send.pc = "reading"
  /\ send' = [send EXCEPT !.pc = "rejected", !.error = "status"]
  /\ UNCHANGED <<allRouterVars, priced, capsuleVars, spanVars, idVars, completed, created, now, wrap>>

(* variant: the request is made again after a network failure *)
FetchRejected_retried ==
  /\ send.pc = "fetching"
  /\ send' = [send EXCEPT !.requests = @ \o @]
  /\ UNCHANGED <<allRouterVars, priced, capsuleVars, spanVars, idVars, completed, created, now, wrap>>

\* fetch() rejected: the error is rethrown
FetchRejected ==
  /\ send.pc = "fetching"
  /\ send' = [send EXCEPT !.pc = "rejected", !.error = "network"]
  /\ UNCHANGED <<allRouterVars, priced, capsuleVars, spanVars, idVars, completed, created, now, wrap>>

\* ------------------------------------------------------------------------
\* Specification: sendSpan() / sendSpans() calls on a Kalibr client and
\* through the singleton, one at a time.
\* ------------------------------------------------------------------------
SendNext ==
  \/ \E client \in Clients : KalibrInit(client)
  \/ \E spans \in Batches : SendSpans(spans)
  \/ \E sp \in SentSpans : SendSpan(sp)
  \/ \E spans \in Batches : StaticSendSpans(spans)
  \/ \E ok \in BOOLEAN : FetchResolved(ok)
  \/ ResponseTextSettled
  \/ FetchRejected

SpecSend == InitLifecycle /\ [][SendNext]_vars

\* ------------------------------------------------------------------------
\* C28: sendSpans([]) makes no request; sendSpans of n >= 1 spans makes
\* exactly one POST whose body is n JSON lines in the order of the spans,
\* each ended by a newline; when the response is not ok or the fetch fails
\* the call rejects and that request stays the only one; sendSpan(s) makes
\* the request of sendSpans([s]).
\* ------------------------------------------------------------------------
C28_OneRequestPerCall ==
  LET n == Len(send.spans) IN
  send.error # "not initialized" =>
    /\ n = 0 => send.requests = <<>> /\ send.pc \in {"idle", "resolved"}
    /\ n >= 1 =>
         /\ Len(send.requests) = 1
         /\ send.requests[1].method = "POST"
         /\ Len(send.requests[1].body) = 2 * n
         /\ \A k \in 1..n :
              /\ send.requests[1].body[2 * k - 1] = stringify(send.spans[k])
              /\ send.requests[1].body[2 * k] = Newline
    /\ send.error \in {"status", "network"} <=> send.pc = "rejected"
    /\ send.via = "sendSpan" => n = 1

\* two different spans were sent in one call, the response was not ok: the
\* call rejected after its one request
C28_Witness ==
  /\ send.pc = "rejected"
  /\ send.error = "status"
  /\ send.spans = <<"s2", "s1">>
  /\ Len(send.requests) = 1

\* ------------------------------------------------------------------------
\* Specification: one SpanBuilder, the StartedSpan it returned last and
\* the finish() calls made on it, one at a time.
\* ------------------------------------------------------------------------
SpanNext ==
  \/ \E client \in Clients : KalibrInit(client)
  \/ \E client \in Clients : UseClient(client)
  \/ \E v \in FieldValues : SetProvider(v)
  \/ \E v \in FieldValues : SetModel(v)
  \/ \E v \in FieldValues : SetOperation(v)
  \/ \E v \in FieldValues : SetTenantId(v)
  \/ Start
  \/ \E autoSend \in AutoSendOptions : Finish(tokensOnly(autoSend))
  \/ SendResolved
  \/ SendRejected

SpecSpan == InitLifecycle /\ [][SpanNext]_vars

\* finish() is called in this step
FinishCalled ==
  /\ started.active
  /\ started' = started
  /\ fin.pc # "sending"
  /\ fin'.pc # "idle"
  /\ span' = span
  /\ instance' = instance
  /\ builderClient' = builderClient
  /\ <<idVars, created, now>>' = <<idVars, created, now>>

\* ------------------------------------------------------------------------
\* The tracing wrappers: traced, withTrace (src/src/trace.ts), traceWrapper
\* (instrumentation) and withSpan (src/src/kalibr.ts).  Each makes its own
\* SpanBuilder; span, started and fin are those of the latest call.
\* ------------------------------------------------------------------------
WrapperKinds == {"traced", "withTrace", "traceWrapper", "withSpan"}

\* TraceConfig: provider and model are optional for traced and withTrace
WrapperConfigs(kind) ==
  IF kind \in {"traced", "withTrace"}
  THEN [operation : {"chat"}, provider : {Undefined, "openai"}, model : {Undefined, "gpt-4o"}]
  ELSE [operation : {"chat"}, provider : {"openai"}, model : {"gpt-4o"}]

\* the span of the SpanBuilder the wrapper sets up
wrapperBuilder(kind, config) ==
  [NoSpan EXCEPT
     !.operation = config.operation,
     !.metadata = IF kind \in {"traced", "withTrace"} THEN Object([k \in {} |-> 0]) ELSE @,
     !.provider = IF missing(config.provider) THEN @ ELSE config.provider,
     !.vendor = IF missing(config.provider) THEN @ ELSE config.provider,
     !.model_id = IF missing(config.model) THEN @ ELSE config.model]

\* the options of the finish() call after fn resolved
successOptions(kind) ==
  IF kind = "traceWrapper" THEN tokensOnly(Undefined)
  ELSE [tokensOnly(Undefined) EXCEPT !.status = "success"]

\* the options of the finish() call in the catch block; error is "fn" for
\* the error of fn and names the error of finish() otherwise
caughtOptions(error) ==
  [tokensOnly(Undefined) EXCEPT
     !.status = "error",
     !.errorType = IF error = "fn" THEN "FnError" ELSE "Error",
     !.errorMessage = error,
     !.stackTrace = "at"]

finishCall(options) == [status |-> options.status, built |-> firstMissing(span) = "none"]

\* the wrapper is called: builder set up and started, fn called
Wrapper(kind, config) ==
  /\ Settled(wrap)
  /\ fin.pc # "sending"
  /\ StartBuilder(wrapperBuilder(kind, config), NoClient)
  /\ wrap' = [pc |-> "fn", kind |-> kind, fn |-> "pending", thrown |-> "none",
              finishes |-> <<>>]
  /\ UNCHANGED <<allRouterVars, priced, capsuleVars, instance, builderClient, traceStorage, spanStorage,
                 created, now, send>>

\* fn resolved: finish() is called in the try block
FnResolved ==
  /\ wrap.pc = "fn"
  /\ FinishStarted(successOptions(wrap.kind))
  /\ wrap' = [wrap EXCEPT !.pc = "try", !.fn = "resolved",
                          !.finishes = Append(@, finishCall(successOptions(wrap.kind)))]
  /\ UNCHANGED <<allRouterVars, priced, capsuleVars, idVars, created, now, send, instance, span,
                 builderClient, started>>

\* fn rejected: finish() is called in the catch block
FnRejected ==
  /\ wrap.pc = "fn"
  /\ FinishStarted(caughtOptions("fn"))
  /\ wrap' = [wrap EXCEPT !.pc = "catch", !.fn = "rejected", !.thrown = "fn",
                          !.finishes = Append(@, finishCall(caughtOptions("fn")))]
  /\ UNCHANGED <<allRouterVars, priced, capsuleVars, idVars, created, now, send, instance, span,
                 builderClient, started>>

\* the finish() of the try block settled: the wrapper returns the result,
\* or the catch block takes the error of finish() and calls finish() again
TrySettled ==
  /\ wrap.pc = "try"
  /\ fin.pc \in {"resolved", "rejected"}
  /\ IF fin.pc = "resolved"
     THEN /\ wrap' = [wrap EXCEPT !.pc = "resolved"]
          /\ UNCHANGED <<fin, completed>>
     ELSE /\ FinishStarted(caughtOptions(fin.error))
          /\ wrap' = [wrap EXCEPT !.pc = "catch", !.thrown = fin.error,
                                  !.finishes = Append(@, finishCall(caughtOptions(fin.error)))]
  /\ UNCHANGED <<allRouterVars, priced, capsuleVars, idVars, created, now, send, instance, span,
                 builderClient, started>>

\* the finish() of the catch block settled: the caught error is rethrown,
\* unless this finish() rejected too
CatchSettled ==
  /\ wrap.pc = "catch"
  /\ fin.pc \in {"resolved", "rejected"}
  /\ wrap' = [wrap EXCEPT !.pc = "rejected",
                          !.thrown = IF fin.pc = "rejected" THEN fin.error ELSE @]
  /\ UNCHANGED <<allRouterVars, priced, capsuleVars, spanVars, idVars, completed, created, now, send>>

\* ------------------------------------------------------------------------
\* Specification: calls of the tracing wrappers, one at a time, before and
\* after Kalibr.init().
\* ------------------------------------------------------------------------
WrapNext ==
  \/ \E client \in Clients : KalibrInit(client)
  \/ \E kind \in WrapperKinds : \E config \in WrapperConfigs(kind) : Wrapper(kind, config)
  \/ FnResolved
  \/ FnRejected
  \/ SendResolved
  \/ SendRejected
  \/ TrySettled
  \/ CatchSettled

SpecWrap == InitLifecycle /\ [][WrapNext]_vars

\* ------------------------------------------------------------------------
\* C29: a tracing wrapper resolves (with the result of fn) when fn
\* resolves and rejects with the error of fn when fn rejects, whatever its
\* configuration and whatever the transport does.
\* ------------------------------------------------------------------------
C29_WrapperTransparent ==
  /\ (Settled(wrap) /\ wrap.fn = "resolved") => wrap.pc = "resolved"
  /\ (Settled(wrap) /\ wrap.fn = "rejected") =>
       wrap.pc = "rejected" /\ wrap.thrown = "fn"

\* ------------------------------------------------------------------------
\* C30: a call of a tracing wrapper finishes its span exactly once: with
\* status success if fn resolved, with status error if fn rejected.
\* ------------------------------------------------------------------------
Finished == {k \in DOMAIN wrap.finishes : wrap.finishes[k].built}

C30_FinishedOnce ==
  wrap.pc \in {"resolved", "rejected"} =>
    \E k \in Finished :
      /\ Finished = {k}
      /\ wrap.finishes[k].status =
           IF wrap.fn = "resolved" THEN "success" ELSE "error"

\* ------------------------------------------------------------------------
\* TraceCapsule (src/src/capsule.ts)
\* ------------------------------------------------------------------------
\* new TraceCapsule(options) when newTraceId() was called n times before:
\* the capsule, and the number of newTraceId() calls after it
construct(options, n) ==
  LET afterTrace == IF falsy(options.traceId) THEN n + 1 ELSE n
      afterToken == IF falsy(options.contextToken) THEN afterTrace + 1 ELSE afterTrace
  IN
  [capsule |->
     [traceId |-> IF falsy(options.traceId) THEN newTraceId(n + 1) ELSE options.traceId,
      aggregateCostUsd |-> orZero(options.aggregateCostUsd),
      aggregateLatencyMs |-> orZero(options.aggregateLatencyMs),
      lastNHops |-> orEmpty(options.lastNHops),
      tenantId |-> options.tenantId,
      workflowId |-> options.workflowId,
      metadata |-> IF options.metadata.given THEN options.metadata
                   ELSE Object([k \in {} |-> 0]),
      contextToken |-> IF falsy(options.contextToken) THEN newTraceId(afterTrace + 1)
                       ELSE options.contextToken,
      parentContextToken |-> options.parentContextToken],
   minted |-> afterToken,
   threw |-> FALSE]

\* (variant: the oldest hop is kept and the newest dropped, and the
\* aggregates are those of the hops kept)
appendHop_windowOnly(c, hop) ==
  LET indexedHop == [hop EXCEPT !.hop_index = Num(Len(c.lastNHops))]
      full == Len(c.lastNHops) >= MAX_HOPS
  IN
  [c EXCEPT
     !.lastNHops = IF full THEN @ ELSE Append(@, indexedHop),
     !.aggregateCostUsd = IF full THEN @ ELSE @ + orZero(hop.cost_usd),
     !.aggregateLatencyMs = IF full THEN @ ELSE @ + orZero(hop.duration_ms)]

\* c.appendHop(hop): the capsule afterwards
appendHop(c, hop) ==
  LET indexedHop == [hop EXCEPT !.hop_index = Num(Len(c.lastNHops))]
      pushed == Append(c.lastNHops, indexedHop)
  IN
  [c EXCEPT
     !.lastNHops = IF Len(pushed) > MAX_HOPS THEN Tail(pushed) ELSE pushed,
     !.aggregateCostUsd = @ + orZero(hop.cost_usd),
     !.aggregateLatencyMs = @ + orZero(hop.duration_ms)]

\* Math.round(x * 1_000_000) / 1_000_000 and Math.round(x * 100) / 100 in
\* the units of the aggregates: the last digit is rounded away
roundLastDigit(x) == ((x + 5) \div 10) * 10

\* if (value) data.key = value
ifTruthy(value) == IF missing(value) THEN Undefined ELSE value
ifTruthyId(id) == IF falsy(id) THEN NoTraceId ELSE id

\* c.toDict()
toDict(c) ==
  [trace_id |-> c.traceId,
   aggregate_cost_usd |-> Num(c.aggregateCostUsd),
   aggregate_latency_ms |-> Num(c.aggregateLatencyMs),
   last_n_hops |-> HopList(c.lastNHops),
   tenant_id |-> ifTruthy(c.tenantId),
   workflow_id |-> ifTruthy(c.workflowId),
   metadata |-> IF DOMAIN c.metadata.map # {} THEN c.metadata ELSE NoMetadata,
   context_token |-> ifTruthyId(c.contextToken),
   parent_context_token |-> ifTruthyId(c.parentContextToken)]

\* c.toJson()
toJson(c) ==
  stringify([toDict(c) EXCEPT
               !.aggregate_cost_usd = Num(roundLastDigit(c.aggregateCostUsd)),
               !.aggregate_latency_ms = Num(roundLastDigit(c.aggregateLatencyMs))])

\* Strings that are not the JSON text of an object: text JSON.parse()
\* rejects, the text "null", and the text of a number.
Malformed == [piece |-> "malformed", of |-> NoData]
JsonNull == [piece |-> "null", of |-> NoData]
JsonNumber == [piece |-> "number", of |-> NoData]
JsonTexts == {Malformed, JsonNull, JsonNumber} \cup {stringify(d) : d \in Datas}

\* the try block of fromJson() throws: JSON.parse() does, or the parsed
\* value is null and reading data.trace_id does
tryThrows(json) == json.piece \in {"malformed", "null"}

\* the options fromDict() passes to the constructor
dictOptions(data) ==
  [traceId |-> data.trace_id,
   lastNHops |-> HopList(orEmpty(data.last_n_hops)),
   aggregateCostUsd |-> Num(orZero(data.aggregate_cost_usd)),
   aggregateLatencyMs |-> Num(orZero(data.aggregate_latency_ms)),
   tenantId |-> data.tenant_id,
   workflowId |-> data.workflow_id,
   metadata |-> data.metadata,
   contextToken |-> NoTraceId,
   parentContextToken |-> NoTraceId]

\* (variant: fromJson() leaves the context tokens out, as fromDict() does)
jsonOptions_tokensDropped(data) == dictOptions(data)

\* the options fromJson() passes to the constructor
jsonOptions(data) ==
  [dictOptions(data) EXCEPT !.contextToken = data.context_token,
                            !.parentContextToken = data.parent_context_token]

\* (variant: the error of the try block is thrown on)
fromJson_rethrows(json, n) ==
  IF tryThrows(json) THEN [capsule |-> NoCapsule, minted |-> n, threw |-> TRUE]
  ELSE construct(jsonOptions(json.of), n)

\* TraceCapsule.fromJson(json)
fromJson(json, n) ==
  IF tryThrows(json) THEN construct(NoOptions, n)
  ELSE construct(jsonOptions(json.of), n)

\* TraceCapsule.fromDict(data)
fromDict(data, n) == construct(dictOptions(data), n)

\* a capsule is built: by the constructor, by fromJson() or by fromDict()
Build(by, malformed, result) ==
  /\ built.by = "none"
  /\ capsule' = result.capsule
  /\ minted' = result.minted
  /\ built' = [by |-> by, malformed |-> malformed, threw |-> result.threw,
               mintedBefore |-> minted, capsule |-> result.capsule]
  /\ UNCHANGED <<allRouterVars, priced, spanVars, idVars, completed, created, now, apiVars,
                 appended, copy>>

New(options) == Build("constructor", FALSE, construct(options, minted))
FromJson(json) == Build("fromJson", tryThrows(json), fromJson(json, minted))
FromDict(data) == Build("fromDict", FALSE, fromDict(data, minted))

AppendHop(hop) ==
  /\ built.by # "none"
  /\ ~built.threw
  /\ copy.via = "none"
  /\ Len(appended) < MaxAppends
  /\ capsule' = appendHop(capsule, hop)
  /\ appended' = Append(appended, hop)
  /\ UNCHANGED <<allRouterVars, priced, spanVars, idVars, completed, created, now, apiVars,
                 minted, built, copy>>

\* TraceCapsule.fromJson(capsule.toJson())
JsonRoundTrip ==
  /\ built.by # "none"
  /\ ~built.threw
  /\ copy.via = "none"
  /\ LET result == fromJson(toJson(capsule), minted)
     IN /\ copy' = [via |-> "json", of |-> capsule, capsule |-> result.capsule]
        /\ minted' = result.minted
  /\ UNCHANGED <<allRouterVars, priced, spanVars, idVars, completed, created, now, apiVars,
                 capsule, built, appended>>

\* TraceCapsule.fromDict(capsule.toDict())
DictRoundTrip ==
  /\ built.by # "none"
  /\ ~built.threw
  /\ copy.via = "none"
  /\ LET result == fromDict(toDict(capsule), minted)
     IN /\ copy' = [via |-> "dict", of |-> capsule, capsule |-> result.capsule]
        /\ minted' = result.minted
  /\ UNCHANGED <<allRouterVars, priced, spanVars, idVars, completed, created, now, apiVars,
                 capsule, built, appended>>

\* ------------------------------------------------------------------------
\* Specification: one TraceCapsule, built in any of the three ways, then
\* given hops, then serialized and read back.
\* ------------------------------------------------------------------------
CapsuleNext ==
  \/ \E options \in CapsuleOptions : New(options)
  \/ \E json \in JsonTexts : FromJson(json)
  \/ \E data \in Datas : FromDict(data)
  \/ \E hop \in Hops : AppendHop(hop)
  \/ JsonRoundTrip
  \/ DictRoundTrip

SpecCapsule == InitLifecycle /\ [][CapsuleNext]_vars

\* ------------------------------------------------------------------------
\* C31: a TraceCapsule, however it was built and whatever was appended to
\* it, holds at most MAX_HOPS hops.
\* ------------------------------------------------------------------------
C31_AtMostMaxHops == Len(capsule.lastNHops) <= MAX_HOPS

\* ------------------------------------------------------------------------
\* C32: after n appendHop() calls on a capsule built empty, the hop list
\* holds the last min(n, MAX_HOPS) hops appended, in the order they were
\* appended, and the aggregates are the sums of cost_usd and duration_ms
\* over all n hops, a missing value counting as 0.
\* ------------------------------------------------------------------------
Fresh ==
  /\ built.by # "none"
  /\ ~built.threw
  /\ built.capsule.lastNHops = <<>>
  /\ built.capsule.aggregateCostUsd = 0
  /\ built.capsule.aggregateLatencyMs = 0

RECURSIVE Sum(_, _)
Sum(hops, field) ==
  IF hops = <<>> THEN 0
  ELSE orZero(hops[1][field]) + Sum(Tail(hops), field)

Min(a, b) == IF a < b THEN a ELSE b

C32_RollingWindow ==
  Fresh =>
    LET n == Len(appended)
        kept == Min(n, MAX_HOPS)
    IN
    /\ Len(capsule.lastNHops) = kept
    /\ \A k \in 1..kept :
         [capsule.lastNHops[k] EXCEPT !.hop_index = Absent] = appended[n - kept + k]
    /\ capsule.aggregateCostUsd = Sum(appended, "cost_usd")
    /\ capsule.aggregateLatencyMs = Sum(appended, "duration_ms")

\* more hops appended than are kept, with and without a cost
C32_Witness ==
  /\ Fresh
  /\ Len(appended) > MAX_HOPS
  /\ ~appended[1].cost_usd.given
  /\ appended[2].cost_usd.given
  /\ capsule.aggregateCostUsd > Sum(capsule.lastNHops, "cost_usd")

\* ------------------------------------------------------------------------
\* C33: the k-th hop appended to a capsule built empty (counting from 0)
\* has hop_index k, so the hop_index values of the hops kept increase
\* strictly.
\* ------------------------------------------------------------------------
C33_SequentialHopIndex ==
  Fresh =>
    LET n == Len(appended)
        kept == Len(capsule.lastNHops)
    IN
    /\ \A k \in 1..kept : capsule.lastNHops[k].hop_index = Num(n - kept + k - 1)
    /\ \A k \in 1..(kept - 1) :
         capsule.lastNHops[k].hop_index.value < capsule.lastNHops[k + 1].hop_index.value

\* ------------------------------------------------------------------------
\* C34: fromJson() never throws; given text that is not JSON (or is the
\* JSON of null) it returns a capsule with no hops, zero aggregates and a
\* trace id minted by that call.
\* ------------------------------------------------------------------------
C34_FromJsonNeverThrows ==
  built.by = "fromJson" =>
    /\ ~built.threw
    /\ built.malformed =>
         /\ built.capsule.lastNHops = <<>>
         /\ built.capsule.aggregateCostUsd = 0
         /\ built.capsule.aggregateLatencyMs = 0
         /\ built.capsule.traceId = newTraceId(built.mintedBefore + 1)
         /\ minted > built.mintedBefore

\* fromJson() was given text that JSON.parse() rejects
C34_Witness ==
  /\ built.by = "fromJson"
  /\ built.malformed
  /\ capsule.traceId.src = "minted"

\* ------------------------------------------------------------------------
\* C40: fromJson(toJson(c)) has the traceId, hops, tenantId, workflowId,
\* metadata, contextToken and parentContextToken of c; fromDict(toDict(c))
\* has the same but for a newly minted contextToken and no
\* parentContextToken.
\* ------------------------------------------------------------------------
SameBut(fields) ==
  \A f \in DOMAIN NoCapsule \ ({"aggregateCostUsd", "aggregateLatencyMs"} \cup fields) :
    copy.capsule[f] = copy.of[f]

TokensDiscarded ==
  /\ copy.capsule.contextToken = newTraceId(minted)
  /\ copy.capsule.contextToken # copy.of.contextToken
  /\ copy.capsule.parentContextToken = NoTraceId

C40_RoundTripIdentity ==
  /\ copy.via = "json" => SameBut({})
  /\ copy.via = "dict" =>
       SameBut({"contextToken", "parentContextToken"}) /\ TokensDiscarded

\* C40 as amended: as above, except that a tenantId, workflowId or
\* parentContextToken that is the empty string comes back undefined.
Optional == {"tenantId", "workflowId", "parentContextToken"}

EmptyComesBackUndefined ==
  /\ copy.capsule.tenantId = ifTruthy(copy.of.tenantId)
  /\ copy.capsule.workflowId = ifTruthy(copy.of.workflowId)

C40_RoundTrip ==
  /\ copy.via = "json" =>
       /\ SameBut(Optional)
       /\ EmptyComesBackUndefined
       /\ copy.capsule.parentContextToken = ifTruthyId(copy.of.parentContextToken)
  /\ copy.via = "dict" =>
       /\ SameBut(Optional \cup {"contextToken"})
       /\ EmptyComesBackUndefined
       /\ TokensDiscarded

\* a capsule with hops and a parent context token went through
\* toDict() and fromDict()
C40_Witness ==
  /\ copy.via = "dict"
  /\ Len(copy.of.lastNHops) > 1
  /\ copy.of.parentContextToken = GivenId(3)
  /\ copy.of.contextToken = GivenId(2)

\* ------------------------------------------------------------------------
\* Specification: calculateCost() called once, with the providers and model
\* names made of the names of the pricing tables: alone, in upper case,
\* with something before and after, two of them in one name, and names
\* the tables do not hold.
\* ------------------------------------------------------------------------
Providers == {"openai", "anthropic", "google", "cohere", "custom"}

\* the models PRICING holds for a provider
Table(provider) ==
  IF provider = "openai"
    THEN {<<"g", "p", "t", "-", "4", "o", "-", "m", "i", "n", "i">>,
          <<"g", "p", "t", "-", "4", "o">>,
          <<"g", "p", "t", "-", "4", "-", "t", "u", "r", "b", "o">>,
          <<"g", "p", "t", "-", "4">>,
          <<"g", "p", "t", "-", "3", ".", "5", "-", "t", "u", "r", "b", "o">>}
  ELSE IF provider = "anthropic"
    THEN {<<"c", "l", "a", "u", "d", "e", "-", "3", ".", "5", "-", "s", "o", "n", "n", "e", "t">>,
          <<"c", "l", "a", "u", "d", "e", "-", "3", "-", "o", "p", "u", "s">>,
          <<"c", "l", "a", "u", "d", "e", "-", "3", "-", "s", "o", "n", "n", "e", "t">>,
          <<"c", "l", "a", "u", "d", "e", "-", "3", "-", "h", "a", "i", "k", "u">>}
  ELSE IF provider = "google"
    THEN {<<"g", "e", "m", "i", "n", "i", "-", "1", ".", "5", "-", "f", "l", "a", "s", "h">>,
          <<"g", "e", "m", "i", "n", "i", "-", "1", ".", "5", "-", "p", "r", "o">>,
          <<"g", "e", "m", "i", "n", "i", "-", "p", "r", "o">>}
  ELSE IF provider = "cohere"
    THEN {<<"c", "o", "m", "m", "a", "n", "d", "-", "r", "-", "p", "l", "u", "s">>,
          <<"c", "o", "m", "m", "a", "n", "d", "-", "r">>,
          <<"c", "o", "m", "m", "a", "n", "d">>}
  ELSE {}

TableModels == UNION {Table(provider) : provider \in Providers}

toUpperCase(s) ==
  [k \in DOMAIN s |->
     IF \E u \in DOMAIN LowerCase : LowerCase[u] = s[k]
     THEN CHOOSE u \in DOMAIN LowerCase : LowerCase[u] = s[k]
     ELSE s[k]]

CostModels ==
  TableModels
  \cup {toUpperCase(m) : m \in TableModels}
  \cup {<<"f", "t", ":">> \o m \o <<"-", "2", "0", "2", "4">> : m \in TableModels}
  \cup {m \o <<"/">> \o n : m \in TableModels, n \in TableModels}
  \cup {<<>>,
        <<"l", "l", "a", "m", "a", "-", "3">>,
        <<"u", "n", "k", "n", "o", "w", "n", "-", "m", "o", "d", "e", "l">>,
        <<"c", "l", "a", "u", "d", "e", "-", "3", "-", "5", "-", "s", "o", "n", "n", "e", "t", "-", "2", "0", "2", "4", "1", "0", "2", "2">>,
        <<"c", "o", "n", "s", "t", "r", "u", "c", "t", "o", "r">>,
        <<"_", "_", "p", "r", "o", "t", "o", "_", "_">>}

CostTokens == {<<0, 0>>, <<10000, 10000>>, <<100, 50>>}

CalculateCost(provider, modelId, inputTokens, outputTokens) ==
  /\ priced = NotPriced
  /\ priced' =
       [provider |-> provider, modelId |-> modelId, inputTokens |-> inputTokens,
        outputTokens |-> outputTokens,
        normalized |-> normalizeModelName(provider, modelId),
        again |-> normalizeModelName(provider, normalizeModelName(provider, modelId)),
        pricing |-> pricingOf(provider, modelId),
        cost |-> calculateCost(provider, modelId, inputTokens, outputTokens)]
  /\ UNCHANGED <<allRouterVars, spanVars, idVars, completed, created, now, apiVars,
                 capsuleVars>>

CostNext ==
  \E provider \in Providers, modelId \in CostModels, tokens \in CostTokens :
    CalculateCost(provider, modelId, tokens[1], tokens[2])

SpecCost == InitLifecycle /\ [][CostNext]_vars

\* ------------------------------------------------------------------------
\* C35: calculateCost() prices a model by the first pattern, in the order
\* of the claim, that the lower-cased name contains; normalizing a
\* normalized name changes nothing; and a provider and model that lead to
\* no entry of the tables are priced at 30.00 / 60.00 per million tokens.
\* ------------------------------------------------------------------------
Precedence(provider) ==
  IF provider = "openai" THEN <<<<"g", "p", "t", "-", "4", "o", "-", "m", "i", "n", "i">>,
                               <<"g", "p", "t", "-", "4", "o">>,
                               <<"g", "p", "t", "-", "4", "-", "t", "u", "r", "b", "o">>,
                               <<"g", "p", "t", "-", "4">>>>
  ELSE IF provider = "cohere" THEN <<<<"c", "o", "m", "m", "a", "n", "d", "-", "r", "-", "p", "l", "u", "s">>,
                                    <<"c", "o", "m", "m", "a", "n", "d", "-", "r">>,
                                    <<"c", "o", "m", "m", "a", "n", "d">>>>
  ELSE IF provider = "google" THEN <<<<"g", "e", "m", "i", "n", "i", "-", "1", ".", "5", "-", "f", "l", "a", "s", "h">>,
                                    <<"g", "e", "m", "i", "n", "i", "-", "1", ".", "5", "-", "p", "r", "o">>,
                                    <<"g", "e", "m", "i", "n", "i", "-", "p", "r", "o">>>>
  ELSE <<>>

Called == priced.provider # "none"

Contained(provider) ==
  {k \in DOMAIN Precedence(provider) :
     includes(toLowerCase(priced.modelId), Precedence(provider)[k])}

MostSpecificFirst ==
  Called /\ Contained(priced.provider) # {} =>
    LET first == CHOOSE k \in Contained(priced.provider) :
                   \A j \in Contained(priced.provider) : k <= j
    IN /\ priced.normalized = Precedence(priced.provider)[first]
       /\ priced.pricing = PRICING(priced.provider, Precedence(priced.provider)[first])

Idempotent == Called => priced.again = priced.normalized

DefaultForUnknown ==
  Called /\ priced.normalized \notin Table(priced.provider) =>
    /\ priced.pricing = DEFAULT_PRICING
    /\ priced.cost = round1000(priced.inputTokens * 30000 + priced.outputTokens * 60000)

C35_CostResolution == MostSpecificFirst /\ Idempotent /\ DefaultForUnknown

\* ------------------------------------------------------------------------
\* Specification: the ids of one SpanBuilder whose provider, model,
\* operation and tenant id are set, started and finished inside and
\* outside of withTraceId() / withSpanContext(), with no Kalibr client.
\* ------------------------------------------------------------------------
ContextIds == {"ctx-1"}

\* nothing constructed or called but one SpanBuilder, whose span is sp
InitBuilder(sp) ==
  /\ constructed = "no"
  /\ paths = <<>>
  /\ successWhen = Undefined
  /\ autoRegister = FALSE
  /\ NothingCalled
  /\ instance = NoClient
  /\ builderClient = NoClient
  /\ started = NotStarted
  /\ fin = NoFinish
  /\ generated = 0
  /\ starts = <<>>
  /\ traceStorage = <<>>
  /\ spanStorage = <<>>
  /\ completed = NoCompleted
  /\ created = NoCreated
  /\ send = NoSend
  /\ wrap = NoWrap
  /\ CapsuleInit
  /\ priced = NotPriced
  /\ now = 0
  /\ span = sp

InitIds ==
  \E v \in FieldValues \ {""} :
    InitBuilder([NoSpan EXCEPT !.provider = v, !.vendor = v, !.model_id = v,
                               !.operation = v, !.tenant_id = v])

IdsNext ==
  \/ \E v \in IdValues : SetTraceId(v)
  \/ \E v \in IdValues \ {""} : SetSpanId(v)
  \/ \E v \in IdValues \ {""} : SetParentSpanId(v)
  \/ \E t \in ContextIds : WithTraceId(t)
  \/ WithTraceIdReturned
  \/ \E p \in ContextIds : WithSpanContext(p)
  \/ WithSpanContextReturned
  \/ Start
  \/ Finish(tokensOnly(Undefined))

SpecIds == InitIds /\ [][IdsNext]_vars

\* the start() call that returned the latest StartedSpan
LatestStart == starts[Len(starts)]

\* the ids generateId() has returned
Generated == {generateId(n) : n \in 1..generated}

\* ------------------------------------------------------------------------
\* C22: the trace id and the span id of the span finish() returns are
\* non-empty and equal what getTraceId() / getSpanId() of the StartedSpan
\* returned right after start(), whatever setters were called on the
\* builder in between.
\* ------------------------------------------------------------------------
C22_IdsStable ==
  fin.pc = "resolved" =>
    /\ completed.trace_id = LatestStart.after.trace_id
    /\ completed.span_id = LatestStart.after.span_id
    /\ ~missing(completed.trace_id)
    /\ ~missing(completed.span_id)

\* ------------------------------------------------------------------------
\* C23: two start() calls that were not given a span id by the caller
\* return StartedSpans with different span ids, also when both are made on
\* the same SpanBuilder.
\* ------------------------------------------------------------------------
SpanIdNotGiven(k) ==
  \/ missing(starts[k].before.span_id)
  \/ starts[k].before.span_id \in Generated

C23_SpanIdsDiffer ==
  \A a, b \in DOMAIN starts :
    (a # b /\ SpanIdNotGiven(a) /\ SpanIdNotGiven(b)) =>
      starts[a].after.span_id # starts[b].after.span_id

\* ------------------------------------------------------------------------
\* C24: a SpanBuilder on which setTraceId() was not called, started inside
\* withTraceId(t, fn), has trace id t; one on which setParentSpanId() was
\* not called, started inside withSpanContext(p, fn), has parent span id p.
\* ------------------------------------------------------------------------
C24_ContextIdsUsed ==
  \A k \in DOMAIN starts :
    /\ (starts[k].traceStorage # Undefined /\ starts[k].before.trace_id = Undefined) =>
         starts[k].after.trace_id = starts[k].traceStorage
    /\ (starts[k].spanStorage # Undefined
          /\ starts[k].before.parent_span_id = Undefined) =>
         starts[k].after.parent_span_id = starts[k].spanStorage

\* ------------------------------------------------------------------------
\* Specification: one SpanBuilder with provider, model, operation and
\* tenant id set, with or without metadata, and no Kalibr client; the span
\* is started and finished with finish(), error() and timeout() while the
\* clock moves on, and createSpan() is called.
\* ------------------------------------------------------------------------
FinishProviders == {"openai", "custom"}
FinishModels == {"gpt-4o", "Claude-3"}
TimeoutOptions == {o \in FinishOptions : o.status = Undefined /\ o.costUsd = NoCost}
CreateOptions ==
  {o \in FinishOptions : o.inputTokens = 1 /\ o.outputTokens = 0 /\ o.costUsd.usd = 0}

InitFinish ==
  \E v \in FieldValues \ {""}, provider \in FinishProviders, modelId \in FinishModels,
     metadata \in Metadatas :
    InitBuilder([NoSpan EXCEPT !.operation = v, !.tenant_id = v,
                               !.provider = provider, !.vendor = provider,
                               !.model_id = modelId, !.metadata = metadata])

FinishNext ==
  \/ Tick
  \/ Start
  \/ \E options \in FinishOptions : Finish(options)
  \/ \E error \in Errors : Error(error, tokensOnly(Undefined))
  \/ \E options \in TimeoutOptions : Timeout(options)
  \/ \E provider \in FinishProviders, options \in CreateOptions :
       CreateSpan(provider, "gpt-4o", MaxClock, options)

SpecFinish == InitFinish /\ [][FinishNext]_vars

\* a KalibrSpan that was built
Built(sp) == sp.schema_version = "1.0"

\* ------------------------------------------------------------------------
\* C25: in a span built by finish(), error() or timeout() the error fields
\* (error_type, error_message, stack_trace) are null unless the status is
\* error, whatever options were passed.
\* ------------------------------------------------------------------------
C25_ErrorFieldsOnlyOnError ==
  (Built(completed) /\ completed.status # "error") =>
    /\ completed.error_type = "null"
    /\ completed.error_message = "null"
    /\ completed.stack_trace = "null"

\* ------------------------------------------------------------------------
\* C26: a span built by finish(), error(), timeout() or createSpan() has
\* total_tokens = input_tokens + output_tokens, latency_ms = duration_ms,
\* total_cost_usd = cost_usd, vendor = provider, and its cost_usd is the
\* override when one was given, 0 included, else the calculated cost; the
\* duration_ms of a span built by finish() is not negative.
\* ------------------------------------------------------------------------
DerivedFields(sp, options) ==
  /\ sp.total_tokens = sp.input_tokens + sp.output_tokens
  /\ sp.input_tokens = options.inputTokens
  /\ sp.output_tokens = options.outputTokens
  /\ sp.latency_ms = sp.duration_ms
  /\ sp.total_cost_usd = sp.cost_usd
  /\ sp.vendor = sp.provider
  /\ sp.cost_usd = IF options.costUsd.given THEN options.costUsd.usd
                   ELSE calculateCost(sp.provider, chars(sp.model_id),
                                      sp.input_tokens, sp.output_tokens)

C26_DerivedFields ==
  /\ Built(completed) =>
       DerivedFields(completed, fin.options) /\ completed.duration_ms >= 0
  /\ Built(created.span) => DerivedFields(created.span, created.options)

\* one input token of gpt-4o with the cost overridden by 0, finished one
\* tick after start(), and a createSpan() call without an override
C26_Witness ==
  /\ Built(completed)
  /\ completed.provider = "openai"
  /\ completed.input_tokens = 1
  /\ fin.options.costUsd = [given |-> TRUE, usd |-> 0]
  /\ completed.cost_usd = 0
  /\ completed.duration_ms = 1
  /\ Built(created.span)
  /\ ~created.options.costUsd.given
  /\ created.span.cost_usd > 0

\* ------------------------------------------------------------------------
\* C27: the metadata of the span finish() builds is the shallow union of
\* the builder's metadata and the metadata given to finish(): its keys are
\* those of either, a key of both has the value given to finish(), and it
\* is null when neither was given.
\* ------------------------------------------------------------------------
C27_MetadataMerged ==
  [][(FinishCalled /\ Built(completed')) =>
       LET own == span.metadata
           given == fin'.options.metadata
           merged == completed'.metadata
       IN
       IF ~own.given /\ ~given.given THEN merged = NoMetadata
       ELSE /\ merged.given
            /\ DOMAIN merged.map = DOMAIN own.map \cup DOMAIN given.map
            /\ \A k \in DOMAIN merged.map :
                 merged.map[k] = IF k \in DOMAIN given.map THEN given.map[k]
                                 ELSE own.map[k]]_vars

\* the builder was given {a: 1}, finish() {a: 2, b: 2}: the span holds
\* {a: 2, b: 2}
C27_Witness ==
  /\ fin.pc = "resolved"
  /\ span.metadata = Object([k \in {"a"} |-> 1])
  /\ fin.options.metadata = Object([k \in {"a", "b"} |-> 2])
  /\ completed.metadata = Object([k \in {"a", "b"} |-> 2])

\* ------------------------------------------------------------------------
\* C19: finish() on a span with a required field missing rejects with the
\* validation error of the first missing field in the order provider,
\* model_id, operation, tenant_id, and makes no transport request; with no
\* field missing it raises no validation error.
\* ------------------------------------------------------------------------
MissingFields == {k \in 1..4 : missing(span[RequiredFields[k]])}

C19_ValidationNamesFirstMissing ==
  [][FinishCalled =>
       IF MissingFields # {}
       THEN /\ fin'.pc = "rejected"
            /\ fin'.sent = 0
            /\ \E k \in MissingFields :
                 /\ \A j \in MissingFields : k <= j
                 /\ fin'.error = RequiredFields[k]
       ELSE fin'.error = "none"]_vars

\* model id and operation are both missing, a client is there and autoSend
\* is not off: finish() rejected naming model_id and sent nothing
C19_Witness ==
  /\ fin.pc = "rejected"
  /\ fin.error = "model_id"
  /\ fin.sent = 0
  /\ fin.autoSend = Undefined
  /\ started.client # NoClient
  /\ MissingFields = {2, 3}

\* ------------------------------------------------------------------------
\* C20 (as stated): finish() with autoSend false makes no transport
\* request; with autoSend omitted or true it makes exactly one when a
\* client was resolved at start() and none otherwise.
\* ------------------------------------------------------------------------
C20_OneRequestWhenClient ==
  [][FinishCalled =>
       fin'.sent = IF fin'.autoSend # "false" /\ started.client # NoClient
                   THEN 1 ELSE 0]_vars

\* C20 (amended): finish() with autoSend false makes no transport request;
\* finish() with autoSend omitted or true on a span that has its four
\* required fields makes exactly one request when a client was resolved at
\* start() and none otherwise; the request is not repeated when it settles.
C20_AutoSend ==
  [][/\ FinishCalled =>
          /\ fin'.autoSend = "false" => fin'.sent = 0
          /\ (fin'.autoSend # "false" /\ MissingFields = {}) =>
               fin'.sent = IF started.client # NoClient THEN 1 ELSE 0
          /\ fin'.pc = "sending" <=> fin'.sent = 1
     /\ fin.pc = "sending" => fin'.sent = fin.sent]_vars

\* a complete span with a client was finished with autoSend false: it
\* resolved without a request
C20_Witness ==
  /\ fin.pc = "resolved"
  /\ fin.autoSend = "false"
  /\ fin.sent = 0
  /\ started.client # NoClient
  /\ MissingFields = {}

\* ------------------------------------------------------------------------
\* C21: when finish() auto-sends and the transport request fails (the
\* fetch rejects or the response is not ok), finish() rejects with the
\* transport error and returns no span.  A finish() call ends either
\* returning the span or rejecting with a validation or a transport error;
\* a request is made only for a span that passed the validation.
\* ------------------------------------------------------------------------
FinishOutcome(f) ==
  /\ f.transport \in TransportFailures =>
       /\ f.pc = "rejected"
       /\ f.error = "transport"
       /\ f.sent = 1
  /\ f.pc = "rejected" =>
       \/ f.error = "transport" /\ f.transport \in TransportFailures
       \/ /\ f.error \in {RequiredFields[k] : k \in 1..4}
          /\ f.transport = "none"
          /\ f.sent = 0
  /\ f.pc = "resolved" => f.error = "none" /\ f.transport \in {"none", "ok"}

C21_TransportFailureRejects ==
  [][/\ FinishOutcome(fin')
     /\ FinishCalled =>
          /\ fin'.sent = 1 => MissingFields = {}
          /\ MissingFields # {} => fin'.pc = "rejected" /\ fin'.transport = "none"]_vars

\* a complete span was finished with autoSend omitted, the response was not
\* ok: finish() rejected after its one request
C21_Witness ==
  /\ fin.pc = "rejected"
  /\ fin.transport = "status"
  /\ fin.autoSend = Undefined
  /\ fin.sent = 1
  /\ MissingFields = {}

\* ------------------------------------------------------------------------
\* C39: a StartedSpan keeps the client start() resolved.  start() is the
\* only step that changes it, and it applies the tenant id of that client
\* only; Kalibr.init() changes nothing of the span or of a finish() that
\* is waiting; finish() sends through the client of start() and through no
\* other, so a span started with no client is never sent, whatever the
\* singleton is by then.
\* ------------------------------------------------------------------------
C39_ClientFixedAtStart ==
  [][/\ started' # started =>
          /\ started'.client = resolveClient(builderClient, instance)
          /\ started'.client = NoClient => span'.tenant_id = span.tenant_id
     /\ instance' # instance => <<span, started, fin>>' = <<span, started, fin>>
     /\ FinishCalled =>
          /\ started.client = NoClient => fin'.sent = 0 /\ fin'.via = "null"
          /\ fin'.sent = 1 => fin'.via = started.client.name
          /\ span'.tenant_id = span.tenant_id
     /\ fin.pc = "sending" => fin'.via = fin.via]_vars

\* a span with its four fields was started before any Kalibr.init() and
\* without useClient(), Kalibr.init() was called, and finish() with
\* autoSend omitted resolved without a request
C39_Witness ==
  /\ started.active
  /\ started.client = NoClient
  /\ builderClient = NoClient
  /\ instance # NoClient
  /\ fin.pc = "resolved"
  /\ fin.autoSend = Undefined
  /\ fin.sent = 0
  /\ MissingFields = {}

\* ------------------------------------------------------------------------
\* C14: the constructor returns with every registration request still
\* pending; a registration that settles (accepted or failed, at any time)
\* changes nothing of the Router's paths, of any completion() or report(),
\* or of how the constructor ended; and a completion() fails only with the
\* error of a candidate.
\* ------------------------------------------------------------------------
RegistrationSettled ==
  /\ Len(registrations') = Len(registrations)
  /\ registrations' # registrations

CandidateErrors == {"provider_error", "cannot_determine_provider"}

C14_RegistrationDoesNotBlock ==
  [][/\ (constructed = "no" /\ constructed' = "ok") =>
          /\ autoRegister' => Len(registrations') = Len(paths')
          /\ \A n \in DOMAIN registrations' : registrations'[n].status = "pending"
     /\ RegistrationSettled =>
          UNCHANGED <<paths, successWhen, constructed, routerVars, callVars,
                      reportVars, envVars>>
     /\ \A c \in Calls : pc'[c] = "rejected" =>
          thrown'[c].type \in CandidateErrors]_vars

\* a completion() returned a response while one registration of the
\* constructor had failed and another one was still pending
C14_Witness ==
  /\ pc[1] = "resolved"
  /\ ~initialized
  /\ \E n, m \in ConstructorRegistrations(registrations) :
       /\ registrations[n].status = "failed"
       /\ registrations[m].status = "pending"
       /\ registrations[n].model = registrations[m].model

\* ------------------------------------------------------------------------
\* C15: a failing outcome or registration request never makes
\* completion(), report() or addPath() reject: a completion() rejects only
\* with a candidate's error after every candidate failed, addPath() and
\* report() always resolve, and after a failed failure report the loop has
\* gone on to the next candidate (or, after the last one, thrown that
\* candidate's error).
\* ------------------------------------------------------------------------
FailedFailureReports(c) ==
  {q \in PostsOf(c) :
     outcomePosts[q].by = "reportFailure" /\ outcomePosts[q].status = "failed"}

C15_ReportingNeverRejects ==
  /\ \A c \in Calls : pc[c] = "rejected" =>
       /\ response[c] = NoResponse
       /\ thrown[c].type \in CandidateErrors
       /\ thrown[c].k = Len(candidatePaths[c])
  /\ \A a \in DOMAIN adds : adds[a].pc \in {"registering", "resolved"}
  /\ \A r \in Reports : rpc[r] \in {"idle", "posting", "done"}
  /\ \A c \in Calls : \A q \in FailedFailureReports(c) :
       IF outcomePosts[q].k < Len(candidatePaths[c])
       THEN i[c] > outcomePosts[q].k
       ELSE pc[c] = "rejected" /\ thrown[c].k = outcomePosts[q].k

\* a failure report failed and the next candidate served the request; the
\* registration of addPath() failed and addPath() resolved; the outcome
\* request of report() failed and report() returned
C15_Witness ==
  /\ \E c \in Calls :
       /\ pc[c] = "resolved"
       /\ i[c] = 2
       /\ \E q \in FailedFailureReports(c) : outcomePosts[q].k = 1
  /\ \E a \in DOMAIN adds :
       /\ adds[a].pc = "resolved"
       /\ adds[a].posted # 0
       /\ registrations[adds[a].posted].status = "failed"
  /\ rpc[1] = "done"
  /\ \E n \in ReportPostsOf(1) : outcomePosts[n].status = "failed"

\* ------------------------------------------------------------------------
\* C16: the constructor throws exactly when the path list is empty or
\* absent, and then no registration request has been made and nothing
\* else has happened on the Router.
\* ------------------------------------------------------------------------
C16_EmptyPathListThrows ==
  /\ constructed = "ok" => paths # <<>>
  /\ (constructed # "no" /\ paths = <<>>) => constructed = "threw"
  /\ constructed = "threw" =>
       /\ registrations = <<>>
       /\ ~initialized
       /\ completions = 0
       /\ adds = <<>>

\* auto-registration was on and the constructor threw
C16_Witness ==
  /\ constructed = "threw"
  /\ autoRegister
  /\ paths = <<>>
  /\ registrations = <<>>

\* ------------------------------------------------------------------------
\* C18 (as stated): every candidate list built after an addPath() holds
\* the added path.
\* ------------------------------------------------------------------------
\* completion c builds its candidate list in this step
BuildsList(c) ==
  /\ selected'[c].by # "none"
  /\ pc[c] = "decide" \/ completions' # completions

InList(p, cands) == \E k \in DOMAIN cands : cands[k] = p

C18_NewPathAlwaysCandidate ==
  [][\A c \in Calls : BuildsList(c) =>
       \A a \in DOMAIN adds : InList(adds[a].path, candidatePaths'[c])]_vars

\* position in paths of the path added by the a-th addPath()
AddedAt(a) == Len(paths) - Len(adds) + a

\* the path at position n is a candidate when m is the decided/forced model
KeptAt(n, m) ==
  \/ paths[n].model # m
  \/ \A q \in 1..(n - 1) : paths[q].model # m

\* C18 (amended): addPath() appends the path to the end of the list whether
\* or not its registration succeeds, earlier paths keep their places, and
\* a candidate list built afterwards holds the new path unless the new
\* path has the decided/forced model and an earlier path has it too.
C18_AddPathAppends ==
  [][/\ constructed = "ok" =>
          /\ Len(paths') >= Len(paths)
          /\ SubSeq(paths', 1, Len(paths)) = paths
          /\ \A a \in DOMAIN adds' :
               paths'[Len(paths') - Len(adds') + a] = adds'[a].path
     /\ \A c \in Calls : BuildsList(c) =>
          \A a \in DOMAIN adds :
            /\ KeptAt(AddedAt(a), selected'[c].model) =>
                 InList(adds[a].path, candidatePaths'[c])
            /\ Count(candidatePaths'[c], adds[a].path) =
                 Cardinality({n \in DOMAIN paths :
                    paths[n] = adds[a].path /\ KeptAt(n, selected'[c].model)})]_vars

\* the registration of the added path failed; a completion() made
\* afterwards fell back to it and it served the request
C18_Witness ==
  /\ Len(adds) = 1
  /\ adds[1].posted # 0
  /\ adds[1].pc = "resolved"
  /\ registrations[adds[1].posted].status = "failed"
  /\ paths[Len(paths)] = adds[1].path
  /\ pc[1] = "resolved"
  /\ i[1] = Len(candidatePaths[1])
  /\ i[1] >= 2
  /\ candidatePaths[1][i[1]] = adds[1].path

====
